---------------------------- MODULE Spec2Model ----------------------------
(***************************************************************************)
(* Model of the MPEG-4 part 2 decoder of libavcodec/mpeg4videodec.c:       *)
(* the video packet header, the GMC sprite trajectory, the DC prediction,  *)
(* the VOL header and the VOP header.  The decoder context                 *)
(* (Mpeg4DecContext with its MpegEncContext m) is the record ctx, the bit  *)
(* reader the record gb (buf: the bits, index: the read position).         *)
(***************************************************************************)
EXTENDS Integers, Naturals, Sequences, FiniteSets, TLC

VARIABLES
    ctx,    \* Mpeg4DecContext and its MpegEncContext, one record
    gb,     \* GetBitContext of the last call: [buf, index]
    ret,    \* value returned by the last call
    pc,     \* the operation that ran last ("init" after decode_init)
    ev,     \* what the last call did on its way: locals it computed, places it reached
    calls   \* number of header parses since decode_init

vars == <<ctx, gb, ret, pc, ev, calls>>

(***************************************************************************)
(* Error codes, picture types, shapes.                                     *)
(***************************************************************************)
AVERROR_INVALIDDATA == -1094995529
AVERROR_PATCHWELCOME == -1463898360
FRAME_SKIPPED == 100
INT_MAX == 2147483647

AV_PICTURE_TYPE_I == 1
AV_PICTURE_TYPE_P == 2
AV_PICTURE_TYPE_B == 3
AV_PICTURE_TYPE_S == 4

RECT_SHAPE == 0
BIN_SHAPE == 1
BIN_ONLY_SHAPE == 2
GRAY_SHAPE == 3

STATIC_SPRITE == 1
GMC_SPRITE == 2

(***************************************************************************)
(* Small arithmetic helpers of the C code.                                 *)
(***************************************************************************)
Pow2(n) == 2 ^ n

Abs(x) == IF x < 0 THEN -x ELSE x

FFMIN(x, y) == IF x < y THEN x ELSE y

FFMAX(x, y) == IF x > y THEN x ELSE y

\* C division: truncation toward zero (b > 0)
CDiv(a, b) == IF a >= 0 THEN a \div b ELSE -((-a) \div b)

\* ROUNDED_DIV(a,b) (((a) >= 0 ? (a) + ((b) >> 1) : (a) - ((b) >> 1)) / (b))
ROUNDED_DIV(a, b) == IF a >= 0 THEN CDiv(a + (b \div 2), b) ELSE CDiv(a - (b \div 2), b)

\* av_log2(v): index of the highest set bit, 0 for v = 0
RECURSIVE av_log2(_)
av_log2(v) == IF v <= 1 THEN 0 ELSE 1 + av_log2(v \div 2)

\* x >> n on a signed value (arithmetic shift)
Shr(x, n) == x \div Pow2(n)

(***************************************************************************)
(* 64-bit values that do not fit the checker's integers: hi * 2^15 + lo    *)
(* with 0 <= lo < 2^15.                                                    *)
(***************************************************************************)
WBase == 2 ^ 15

W(x) == [hi |-> x \div WBase, lo |-> x % WBase]

WNorm(h, l) == [hi |-> h + (l \div WBase), lo |-> l % WBase]

WAdd(a, b) == WNorm(a.hi + b.hi, a.lo + b.lo)

WNeg(a) == WNorm(-a.hi, -a.lo)

WSub(a, b) == WAdd(a, WNeg(b))

\* a * m for a small factor 0 <= m <= 2^16
WMul(a, m) == WNorm(a.hi * m, a.lo * m)

\* a >= x and a <= x for an int x
WGe(a, x) == a.hi > W(x).hi \/ (a.hi = W(x).hi /\ a.lo >= W(x).lo)

WLe(a, x) == a.hi < W(x).hi \/ (a.hi = W(x).hi /\ a.lo <= W(x).lo)

\* llabs(a) >= x  (x > 0)
WAbsGe(a, x) == WGe(a, x) \/ WLe(a, -x)

\* INT_MIN <= a <= INT_MAX
WFitsInt(a) == WLe(a, INT_MAX) /\ WGe(a, -INT_MAX - 1)

\* conversion of an int64 to int: the low 32 bits, as a signed value
WToInt(a) ==
    LET hs == a.hi % 131072
    IN  IF hs >= 65536 THEN (hs - 131072) * WBase + a.lo ELSE hs * WBase + a.lo

(***************************************************************************)
(* Bit reader (get_bits.h): reads past the end yield the zero padding.     *)
(***************************************************************************)
BitAt(buf, i) == IF i >= 0 /\ i < Len(buf) THEN buf[i + 1] ELSE 0

RECURSIVE BitsValue(_, _, _)
BitsValue(buf, i, n) ==
    IF n = 0 THEN 0 ELSE 2 * BitsValue(buf, i, n - 1) + BitAt(buf, i + n - 1)

show_bits(g, n) == BitsValue(g.buf, g.index, n)

skip_bits(g, n) == [g EXCEPT !.index = @ + n]

get_bits_count(g) == g.index

size_in_bits(g) == Len(g.buf)

get_bits_left(g) == Len(g.buf) - g.index

\* number of 1 bits in front of the reader, at most lim
RECURSIVE CountOnes(_, _, _)
CountOnes(buf, i, lim) ==
    IF lim = 0 \/ BitAt(buf, i) = 0 THEN 0 ELSE 1 + CountOnes(buf, i + 1, lim - 1)

\* number of 0 bits in front of the reader, at most lim
RECURSIVE CountZeros(_, _, _)
CountZeros(buf, i, lim) ==
    IF lim = 0 \/ BitAt(buf, i) = 1 THEN 0 ELSE 1 + CountZeros(buf, i + 1, lim - 1)

\* get_xbits(n): n bits as a sign-magnitude style value (MSB 1: positive)
get_xbits_value(g, n) ==
    LET v == show_bits(g, n)
    IN  IF v >= Pow2(n - 1) THEN v ELSE v - (Pow2(n) - 1)

\* the n-bit big-endian code of v, as a bit sequence
RECURSIVE Bits(_, _)
Bits(v, n) == IF n = 0 THEN <<>> ELSE Append(Bits(v \div 2, n - 1), v % 2)

RECURSIVE Rep(_, _)
Rep(b, n) == IF n = 0 THEN <<>> ELSE <<b>> \o Rep(b, n - 1)

(***************************************************************************)
(* The sprite_trajectory VLC: built from code lengths alone                *)
(* (VLC_INIT_STATIC_TABLE_FROM_LENGTHS), symbol i having the i-th length,  *)
(* codes assigned in increasing order, left aligned.                       *)
(***************************************************************************)
ff_sprite_trajectory_lens == <<2, 3, 3, 3, 3, 3, 4, 5, 6, 7, 8, 9, 10, 11, 12>>

\* 12-bit left-aligned code of symbol sym (0-based)
RECURSIVE SpriteTrajCodeLeft(_)
SpriteTrajCodeLeft(sym) ==
    IF sym = 0 THEN 0
    ELSE SpriteTrajCodeLeft(sym - 1) + Pow2(12 - ff_sprite_trajectory_lens[sym])

SpriteTrajCode(sym) ==
    SpriteTrajCodeLeft(sym) \div Pow2(12 - ff_sprite_trajectory_lens[sym + 1])

\* the static table: the code of every symbol
sprite_trajectory == [sym \in 0..14 |-> SpriteTrajCode(sym)]

\* get_vlc2(gb, sprite_trajectory, SPRITE_TRAJ_VLC_BITS, 2): the symbol whose
\* code is in front of the reader; -1, with the 6 bits of the first table stage
\* consumed, where no code matches.
get_vlc2_sprite_trajectory(g) ==
    LET hit == {sym \in 0..14 :
                   show_bits(g, ff_sprite_trajectory_lens[sym + 1]) = sprite_trajectory[sym]}
    IN  IF hit = {} THEN [sym |-> -1, gb |-> skip_bits(g, 6)]
        ELSE LET sym == CHOOSE x \in hit : TRUE
             IN  [sym |-> sym, gb |-> skip_bits(g, ff_sprite_trajectory_lens[sym + 1])]

(***************************************************************************)
(* mpeg4_decode_sprite_trajectory                                          *)
(***************************************************************************)
Arr2(a00, a01, a10, a11) ==
    [i \in 0..1 |-> [j \in 0..1 |-> IF i = 0 THEN (IF j = 0 THEN a00 ELSE a01)
                                     ELSE (IF j = 0 THEN a10 ELSE a11)]]

Zero2 == Arr2(0, 0, 0, 0)

IsDivx500b413(c) == c.divx_version = 500 /\ c.divx_build = 413

\* one component of a warping point: the VLC gives its length, get_xbits its value
SpriteTrajValue(l) ==
    IF l.sym > 0
    THEN [v |-> get_xbits_value(l.gb, l.sym), gb |-> skip_bits(l.gb, l.sym)]
    ELSE [v |-> 0, gb |-> l.gb]

SpriteTrajComponent(g) == SpriteTrajValue(get_vlc2_sprite_trajectory(g))

\* the second component of a point and the marker after it (lines 467-471)
SpriteTrajPointY(cx, cy) == [x |-> cx.v, y |-> cy.v, gb |-> skip_bits(cy.gb, 1)]

\* after the first component cx: the marker, absent in the divx 500b413
\* layout, and the second component (lines 464-471)
SpriteTrajPointX(c, cx) ==
    SpriteTrajPointY(cx, SpriteTrajComponent(IF IsDivx500b413(c) THEN cx.gb
                                             ELSE skip_bits(cx.gb, 1)))

\* one pass of the loop over the warping points (lines 456-474)
SpriteTrajPoint(c, g) == SpriteTrajPointX(c, SpriteTrajComponent(g))

\* the point p added to the points r read before it
SpriteTrajAppend(r, p) == [d |-> Append(r.d, <<p.x, p.y>>), gb |-> p.gb]

SpriteTrajNext(c, r) == SpriteTrajAppend(r, SpriteTrajPoint(c, r.gb))

\* d[0..3][0..1] and the reader after num_sprite_warping_points points
RECURSIVE SpriteTrajRead(_, _, _)
SpriteTrajRead(c, g, n) ==
    IF n = 0 THEN [d |-> <<>>, gb |-> g]
    ELSE SpriteTrajNext(c, SpriteTrajRead(c, g, n - 1))

\* d[i][j] with the entries that were not read left 0
TrajAt(d, i, j) == IF i + 1 <= Len(d) THEN d[i + 1][j + 1] ELSE 0

\* smallest alpha >= start with (1 << alpha) >= w
RECURSIVE Log2Ceil(_, _)
Log2Ceil(w, alpha) == IF Pow2(alpha) < w THEN Log2Ceil(w, alpha + 1) ELSE alpha

\* ((x >> 1) | (x & 1)) on an int
ShrOrLow(x) ==
    LET y == x \div 2
    IN  IF x % 2 = 1 /\ y % 2 = 0 THEN y + 1 ELSE y

\* the values computed up to the switch: a, r, rho, alpha, beta, sprite_ref and
\* virtual_ref (lines 435-441 and 478-522)
SpriteGeometry(c, d) ==
    LET a     == 2 * Pow2(c.sprite_warping_accuracy)
        rho   == 3 - c.sprite_warping_accuracy
        r     == 16 \div a
        w     == c.width
        h     == c.height
        alpha == Log2Ceil(w, 1)
        beta  == Log2Ceil(h, 0)
        w2    == Pow2(alpha)
        h2    == Pow2(beta)
        vop_ref == <<<<0, 0>>, <<w, 0>>, <<0, h>>, <<w, h>>>>
        vr(i, j) == vop_ref[i + 1][j + 1]
        sr(i, j) ==
            IF IsDivx500b413(c)
            THEN a * vr(i, j) + TrajAt(d, 0, j) + (IF i = 0 THEN 0 ELSE TrajAt(d, i, j))
            ELSE (a \div 2) * (2 * vr(i, j) + TrajAt(d, 0, j)
                               + (IF i = 0 THEN 0 ELSE TrajAt(d, i, j)))
        v00 == 16 * (vr(0, 0) + w2)
               + ROUNDED_DIV((w - w2) * (r * sr(0, 0) - 16 * vr(0, 0))
                             + w2 * (r * sr(1, 0) - 16 * vr(1, 0)), w)
        v01 == 16 * vr(0, 1)
               + ROUNDED_DIV((w - w2) * (r * sr(0, 1) - 16 * vr(0, 1))
                             + w2 * (r * sr(1, 1) - 16 * vr(1, 1)), w)
        v10 == 16 * vr(0, 0)
               + ROUNDED_DIV((h - h2) * (r * sr(0, 0) - 16 * vr(0, 0))
                             + h2 * (r * sr(2, 0) - 16 * vr(2, 0)), h)
        v11 == 16 * (vr(0, 1) + h2)
               + ROUNDED_DIV((h - h2) * (r * sr(0, 1) - 16 * vr(0, 1))
                             + h2 * (r * sr(2, 1) - 16 * vr(2, 1)), h)
    IN  [a |-> a, rho |-> rho, r |-> r, w |-> w, h |-> h, alpha |-> alpha,
         beta |-> beta, w2 |-> w2, h2 |-> h2,
         vop_ref |-> [i \in 0..3 |-> [j \in 0..1 |-> vr(i, j)]],
         sprite_ref |-> [i \in 0..2 |-> [j \in 0..1 |-> sr(i, j)]],
         virtual_ref |-> Arr2(v00, v01, v10, v11)]

\* case 0 of the switch (lines 525-536)
SpriteCase0(g) ==
    [offset |-> Zero2, delta |-> Arr2(g.a, 0, 0, g.a), shift |-> <<0, 0>>]

\* variant: the offsets are a times the displacement
SpriteCase1_Scaled(g) ==
    LET sr == g.sprite_ref
        vr == g.vop_ref
    IN  [offset |-> Arr2(g.a * sr[0][0] - g.a * vr[0][0],
                         g.a * sr[0][1] - g.a * vr[0][1],
                         ShrOrLow(sr[0][0]) - g.a * CDiv(vr[0][0], 2),
                         ShrOrLow(sr[0][1]) - g.a * CDiv(vr[0][1], 2)),
         delta  |-> Arr2(g.a, 0, 0, g.a),
         shift  |-> <<0, 0>>]

\* case 1 of the switch (lines 537-550)
SpriteCase1(g) ==
    LET sr == g.sprite_ref
        vr == g.vop_ref
    IN  [offset |-> Arr2(sr[0][0] - g.a * vr[0][0],
                         sr[0][1] - g.a * vr[0][1],
                         ShrOrLow(sr[0][0]) - g.a * CDiv(vr[0][0], 2),
                         ShrOrLow(sr[0][1]) - g.a * CDiv(vr[0][1], 2)),
         delta  |-> Arr2(g.a, 0, 0, g.a),
         shift  |-> <<0, 0>>]

\* case 2 of the switch (lines 551-579)
SpriteCase2(g) ==
    LET sr == g.sprite_ref
        vr == g.vop_ref
        vv == g.virtual_ref
        r  == g.r
        ar == g.alpha + g.rho
    IN  [offset |-> Arr2(
             sr[0][0] * Pow2(ar)
               + (-r * sr[0][0] + vv[0][0]) * (-vr[0][0])
               + (r * sr[0][1] - vv[0][1]) * (-vr[0][1]) + Pow2(ar - 1),
             sr[0][1] * Pow2(ar)
               + (-r * sr[0][1] + vv[0][1]) * (-vr[0][0])
               + (-r * sr[0][0] + vv[0][0]) * (-vr[0][1]) + Pow2(ar - 1),
             (-r * sr[0][0] + vv[0][0]) * (-2 * vr[0][0] + 1)
               + (r * sr[0][1] - vv[0][1]) * (-2 * vr[0][1] + 1)
               + 2 * g.w2 * r * sr[0][0] - 16 * g.w2 + Pow2(ar + 1),
             (-r * sr[0][1] + vv[0][1]) * (-2 * vr[0][0] + 1)
               + (-r * sr[0][0] + vv[0][0]) * (-2 * vr[0][1] + 1)
               + 2 * g.w2 * r * sr[0][1] - 16 * g.w2 + Pow2(ar + 1)),
         delta  |-> Arr2(-r * sr[0][0] + vv[0][0],
                         r * sr[0][1] - vv[0][1],
                         -r * sr[0][1] + vv[0][1],
                         -r * sr[0][0] + vv[0][0]),
         shift  |-> <<ar, ar + 2>>]

\* case 3 of the switch (lines 580-607)
SpriteCase3(g) ==
    LET sr == g.sprite_ref
        vr == g.vop_ref
        vv == g.virtual_ref
        r  == g.r
        min_ab == FFMIN(g.alpha, g.beta)
        w3 == g.w2 \div Pow2(min_ab)
        h3 == g.h2 \div Pow2(min_ab)
        sh == g.alpha + g.beta + g.rho - min_ab
    IN  [offset |-> Arr2(
             sr[0][0] * Pow2(sh)
               + (-r * sr[0][0] + vv[0][0]) * h3 * (-vr[0][0])
               + (-r * sr[0][0] + vv[1][0]) * w3 * (-vr[0][1]) + Pow2(sh - 1),
             sr[0][1] * Pow2(sh)
               + (-r * sr[0][1] + vv[0][1]) * h3 * (-vr[0][0])
               + (-r * sr[0][1] + vv[1][1]) * w3 * (-vr[0][1]) + Pow2(sh - 1),
             (-r * sr[0][0] + vv[0][0]) * h3 * (-2 * vr[0][0] + 1)
               + (-r * sr[0][0] + vv[1][0]) * w3 * (-2 * vr[0][1] + 1)
               + 2 * g.w2 * h3 * r * sr[0][0] - 16 * g.w2 * h3 + Pow2(sh + 1),
             (-r * sr[0][1] + vv[0][1]) * h3 * (-2 * vr[0][0] + 1)
               + (-r * sr[0][1] + vv[1][1]) * w3 * (-2 * vr[0][1] + 1)
               + 2 * g.w2 * h3 * r * sr[0][1] - 16 * g.w2 * h3 + Pow2(sh + 1)),
         delta  |-> Arr2((-r * sr[0][0] + vv[0][0]) * h3,
                         (-r * sr[0][0] + vv[1][0]) * w3,
                         (-r * sr[0][1] + vv[0][1]) * h3,
                         (-r * sr[0][1] + vv[1][1]) * w3),
         shift  |-> <<sh, sh + 2>>]

\* the switch on num_sprite_warping_points (lines 524-611)
SpriteSwitch(c, g) ==
    CASE c.num_sprite_warping_points = 0 -> SpriteCase0(g)
      [] c.num_sprite_warping_points = 1 -> SpriteCase1(g)
      [] c.num_sprite_warping_points = 2 -> SpriteCase2(g)
      [] c.num_sprite_warping_points = 3 -> SpriteCase3(g)

\* "try to simplify the situation" (lines 613-616)
SpriteIsPureScaling(a, raw) ==
    /\ raw.delta[0][0] = a * Pow2(raw.shift[1])
    /\ raw.delta[0][1] = 0
    /\ raw.delta[1][0] = 0
    /\ raw.delta[1][1] = a * Pow2(raw.shift[1])

\* first overflow guard, for one i (lines 633-637)
SpriteShiftOverflow(raw, shift_y, shift_c, i) ==
    \/ shift_c < 0
    \/ shift_y < 0
    \/ Abs(raw.offset[0][i]) >= Shr(INT_MAX, shift_y)
    \/ Abs(raw.offset[1][i]) >= Shr(INT_MAX, shift_c)
    \/ Abs(raw.delta[0][i]) >= Shr(INT_MAX, shift_y)
    \/ Abs(raw.delta[1][i]) >= Shr(INT_MAX, shift_y)

\* the values after the multiplications of lines 644-651, as 64-bit values
SpriteScaled(raw, shift_y, shift_c) ==
    [offset |-> [k \in 0..1 |-> [i \in 0..1 |->
                    WMul(W(raw.offset[k][i]), Pow2(IF k = 0 THEN shift_y ELSE shift_c))]],
     delta  |-> [k \in 0..1 |-> [i \in 0..1 |-> WMul(W(raw.delta[k][i]), Pow2(shift_y))]]]

\* second overflow guard, for one i (lines 653-667)
SpritePointsOverflow(sc, a, w, h, i) ==
    LET o   == sc.offset[0][i]
        d0  == sc.delta[i][0]
        d1  == sc.delta[i][1]
        sd0 == WSub(d0, W(a * 65536))
        sd1 == WSub(d1, W(a * 65536))
    IN  \/ WAbsGe(WAdd(o, WMul(d0, w + 16)), INT_MAX)
        \/ WAbsGe(WAdd(o, WMul(d1, h + 16)), INT_MAX)
        \/ WAbsGe(WAdd(WAdd(o, WMul(d0, w + 16)), WMul(d1, h + 16)), INT_MAX)
        \/ WAbsGe(WMul(d0, w + 16), INT_MAX)
        \/ WAbsGe(WMul(d1, h + 16), INT_MAX)
        \/ WAbsGe(sd0, INT_MAX)
        \/ WAbsGe(sd1, INT_MAX)
        \/ WAbsGe(WAdd(o, WMul(sd0, w + 16)), INT_MAX)
        \/ WAbsGe(WAdd(o, WMul(sd1, h + 16)), INT_MAX)
        \/ WAbsGe(WAdd(WAdd(o, WMul(sd0, w + 16)), WMul(sd1, h + 16)), INT_MAX)

Wide2(x) == [k \in 0..1 |-> [i \in 0..1 |-> W(x[k][i])]]

Int2(x) == [k \in 0..1 |-> [i \in 0..1 |-> WToInt(x[k][i])]]

\* variant: the arrays are left as they were
SpriteOverflow_KeepArrays(c, g, guard, shift) ==
    [ctx |-> [c EXCEPT !.sprite_shift = shift],
     gb |-> g, ret |-> AVERROR_PATCHWELCOME, guard |-> guard,
     offset64 |-> Wide2(c.sprite_offset), delta64 |-> Wide2(c.sprite_delta)]

\* the label overflow: (lines 682-685)
SpriteOverflow(c, g, guard, shift) ==
    [ctx |-> [c EXCEPT !.sprite_shift = shift,
                       !.sprite_offset = Zero2,
                       !.sprite_delta = Zero2],
     gb |-> g, ret |-> AVERROR_PATCHWELCOME, guard |-> guard,
     offset64 |-> Wide2(Zero2), delta64 |-> Wide2(Zero2)]

\* the values scaled to 16 fractional bits, checked by the second guard and
\* stored (lines 644-680)
SpriteStore(c, g, geo, sc) ==
    IF \E i \in 0..1 : SpritePointsOverflow(sc, geo.a, geo.w, geo.h, i)
    THEN SpriteOverflow(c, g, "points", <<16, 16>>)
    ELSE [ctx |-> [c EXCEPT !.sprite_shift = <<16, 16>>,
                            !.real_sprite_warping_points = c.num_sprite_warping_points,
                            !.sprite_offset = Int2(sc.offset),
                            !.sprite_delta = Int2(sc.delta)],
          gb |-> g, ret |-> 0, guard |-> "none",
          offset64 |-> sc.offset, delta64 |-> sc.delta]

\* variant: the shifts of the switch are kept
SpriteSimplified_KeepShift(c, g, geo, raw) ==
    LET off == Arr2(Shr(raw.offset[0][0], raw.shift[1]),
                    Shr(raw.offset[0][1], raw.shift[1]),
                    Shr(raw.offset[1][0], raw.shift[2]),
                    Shr(raw.offset[1][1], raw.shift[2]))
        del == Arr2(geo.a, 0, 0, geo.a)
    IN  [ctx |-> [c EXCEPT !.sprite_shift = raw.shift,
                           !.real_sprite_warping_points = 1,
                           !.sprite_offset = Int2(Wide2(off)),
                           !.sprite_delta = Int2(Wide2(del))],
         gb |-> g, ret |-> 0, guard |-> "simplified",
         offset64 |-> Wide2(off), delta64 |-> Wide2(del)]

\* the pure scaling found by "try to simplify the situation" (lines 617-627)
SpriteSimplified(c, g, geo, raw) ==
    LET off == Arr2(Shr(raw.offset[0][0], raw.shift[1]),
                    Shr(raw.offset[0][1], raw.shift[1]),
                    Shr(raw.offset[1][0], raw.shift[2]),
                    Shr(raw.offset[1][1], raw.shift[2]))
        del == Arr2(geo.a, 0, 0, geo.a)
    IN  [ctx |-> [c EXCEPT !.sprite_shift = <<0, 0>>,
                           !.real_sprite_warping_points = 1,
                           !.sprite_offset = Int2(Wide2(off)),
                           !.sprite_delta = Int2(Wide2(del))],
         gb |-> g, ret |-> 0, guard |-> "simplified",
         offset64 |-> Wide2(off), delta64 |-> Wide2(del)]

\* after the switch (lines 613-686), raw being what the switch computed
SpriteAfterSwitch(c, g, geo, raw) ==
    IF SpriteIsPureScaling(geo.a, raw) THEN SpriteSimplified(c, g, geo, raw)
    ELSE IF \E i \in 0..1 :
                SpriteShiftOverflow(raw, 16 - raw.shift[1], 16 - raw.shift[2], i)
         THEN SpriteOverflow(c, g, "shift", raw.shift)
         ELSE SpriteStore(c, g, geo,
                          SpriteScaled(raw, 16 - raw.shift[1], 16 - raw.shift[2]))

\* from the switch to the return (lines 524-686); c holds sprite_traj already
SpriteResolve(c, g, geo) == SpriteAfterSwitch(c, g, geo, SpriteSwitch(c, geo))

\* sprite_traj stored (line 473) and the rest of the function, rd being the
\* warping points read
SpriteTrajStored(c, rd) ==
    SpriteResolve([c EXCEPT !.sprite_traj =
                       [i \in 0..3 |-> [j \in 0..1 |-> TrajAt(rd.d, i, j)]]],
                  rd.gb, SpriteGeometry(c, rd.d))

mpeg4_decode_sprite_trajectory(c, g) ==
    IF c.width <= 0 \/ c.height <= 0
    THEN [ctx |-> c, gb |-> g, ret |-> AVERROR_INVALIDDATA, guard |-> "size",
          offset64 |-> Wide2(c.sprite_offset), delta64 |-> Wide2(c.sprite_delta)]
    ELSE SpriteTrajStored(c, SpriteTrajRead(c, g, c.num_sprite_warping_points))

(***************************************************************************)
(* ff_mpeg4_decode_video_packet_header                                     *)
(***************************************************************************)
\* mpeg4video.c: the number of 0 bits of a resync marker
ff_mpeg4_get_video_packet_prefix_length(pict_type, f_code, b_code) ==
    CASE pict_type = AV_PICTURE_TYPE_I -> 16
      [] pict_type \in {AV_PICTURE_TYPE_P, AV_PICTURE_TYPE_S} -> f_code + 15
      [] pict_type = AV_PICTURE_TYPE_B -> FFMAX(FFMAX(f_code, b_code), 2) + 15
      [] OTHER -> -1

\* decode_new_pred (lines 688-698): the reader after it
decode_new_pred(c, g) ==
    LET len == FFMIN(c.time_increment_bits + 3, 15)
        g1  == skip_bits(g, len)
        g2  == IF show_bits(g1, 1) = 1 THEN skip_bits(g1, 1 + len) ELSE skip_bits(g1, 1)
    IN  skip_bits(g2, 1)

\* the header returns r
VideoPacketResult(c, g, r, len) ==
    [ctx |-> c, gb |-> g, ret |-> r, len |-> len, done |-> TRUE,
     header_extension |-> 0]

\* parsing goes on with the next part of the header
VideoPacketNext(c, g, len, header_extension) ==
    [ctx |-> c, gb |-> g, ret |-> 0, len |-> len, done |-> FALSE,
     header_extension |-> header_extension]

\* the end of the packet header (lines 787-790)
VideoPacketEnd(r) ==
    IF r.done THEN r
    ELSE VideoPacketResult(r.ctx, IF r.ctx.new_pred = 1
                                  THEN decode_new_pred(r.ctx, r.gb) ELSE r.gb,
                           0, r.len)

\* the header extension after the sprite trajectory (lines 765-785), sp being
\* what the trajectory returned
VideoPacketAfterSprite(c, len, sp) ==
    IF sp.ret < 0 THEN VideoPacketResult(sp.ctx, sp.gb, AVERROR_INVALIDDATA, len)
    ELSE VideoPacketNext(sp.ctx,
             skip_bits(sp.gb, (IF c.pict_type # AV_PICTURE_TYPE_I THEN 3 ELSE 0)
                              + (IF c.pict_type = AV_PICTURE_TYPE_B THEN 3 ELSE 0)),
             len, 1)

\* the header extension (lines 748-786), entered with header_extension set
VideoPacketExtension(r) ==
    IF r.done \/ r.header_extension = 0 THEN r ELSE
    LET c    == r.ctx
        g    == r.gb
        ones == CountOnes(g.buf, g.index, Len(g.buf) + 1)
        g1   == skip_bits(g, ones + 1)                  \* while (get_bits1() != 0)
        g2   == skip_bits(g1, 1 + c.time_increment_bits + 1 + 2)
        g3   == skip_bits(g2, 3)                        \* intra dc vlc threshold
    IN  IF c.shape = BIN_ONLY_SHAPE THEN VideoPacketNext(c, g2, r.len, 1)
        ELSE VideoPacketAfterSprite(c, r.len,
                 IF c.pict_type = AV_PICTURE_TYPE_S /\ c.vol_sprite_usage = GMC_SPRITE
                 THEN mpeg4_decode_sprite_trajectory(c, g3)
                 ELSE [ctx |-> c, gb |-> g3, ret |-> 0])

\* variant: a prefix longer than expected is accepted
VideoPacketPrefixMismatch_ShortOnly(c, len) ==
    len < ff_mpeg4_get_video_packet_prefix_length(c.pict_type, c.f_code, c.b_code)

\* the result compared with the expected prefix length (line 719)
VideoPacketPrefixMismatch(c, len) ==
    len # ff_mpeg4_get_video_packet_prefix_length(c.pict_type, c.f_code, c.b_code)

\* from the macroblock number on (lines 724-746)
VideoPacketFields(r) ==
    IF r.done THEN r ELSE
    LET c  == r.ctx
        g  == r.gb
        mb_num_bits == av_log2(c.mb_num - 1) + 1
        he1    == IF c.shape # RECT_SHAPE THEN show_bits(g, 1) ELSE 0
        g1     == IF c.shape # RECT_SHAPE THEN skip_bits(g, 1) ELSE g
        mb_num == show_bits(g1, mb_num_bits)
        g2     == skip_bits(g1, mb_num_bits)
    IN  IF mb_num >= c.mb_num \/ mb_num = 0
        THEN VideoPacketResult(c, g2, AVERROR_INVALIDDATA, r.len)
        ELSE LET c1     == [c EXCEPT !.mb_x = mb_num % c.mb_width,
                                     !.mb_y = mb_num \div c.mb_width]
                 qscale == IF c.shape # BIN_ONLY_SHAPE
                           THEN show_bits(g2, c.quant_precision) ELSE 0
                 g3     == IF c.shape # BIN_ONLY_SHAPE
                           THEN skip_bits(g2, c.quant_precision) ELSE g2
                 c2     == IF qscale # 0
                           THEN [c1 EXCEPT !.qscale = qscale, !.chroma_qscale = qscale]
                           ELSE c1
                 he2    == IF c.shape = RECT_SHAPE THEN show_bits(g3, 1) ELSE he1
                 g4     == IF c.shape = RECT_SHAPE THEN skip_bits(g3, 1) ELSE g3
             IN  VideoPacketNext(c2, g4, r.len, he2)

\* the space check and the resync prefix (lines 712-722)
VideoPacketPrefix(c, g) ==
    IF get_bits_count(g) > size_in_bits(g) - 20
    THEN VideoPacketResult(c, g, AVERROR_INVALIDDATA, -1)
    ELSE LET len == CountZeros(g.buf, g.index, 32)
             g1  == skip_bits(g, IF len < 32 THEN len + 1 ELSE 32)
         IN  IF VideoPacketPrefixMismatch(c, len)
             THEN VideoPacketResult(c, g1, AVERROR_INVALIDDATA, len)
             ELSE VideoPacketNext(c, g1, len, 0)

\* ff_mpeg4_decode_video_packet_header (lines 704-789): its parts in the order
\* of the code, each entered unless an earlier one has returned
ff_mpeg4_decode_video_packet_header(c, g) ==
    VideoPacketEnd(VideoPacketExtension(VideoPacketFields(VideoPacketPrefix(c, g))))

(***************************************************************************)
(* mpeg4_is_resync (lines 378-430)                                         *)
(***************************************************************************)
mpeg4_resync_prefix == <<32512, 32256, 31744, 30720, 28672, 24576, 16384, 0>>

\* align_get_bits: the reader at the next byte boundary
align_get_bits(g) == skip_bits(g, (8 - (g.index % 8)) % 8)

\* the function returns r with the reader at g
IsResyncResult(g, r, branch, len) ==
    [gb |-> g, ret |-> r, branch |-> branch, len |-> len]

\* the loop of lines 387-394 has another stuffing code to skip
IsResyncStuffing(c, g) ==
    LET v == show_bits(g, 16)
    IN  /\ v <= 255
        /\ ~ \/ c.pict_type = AV_PICTURE_TYPE_B
             \/ Shr(v, 8 - c.pict_type) # 1
             \/ c.partitioned_frame # 0

\* the reader after the loop of lines 387-394
RECURSIVE IsResyncSkipStuffing(_, _)
IsResyncSkipStuffing(c, g) ==
    IF IsResyncStuffing(c, g)
    THEN IsResyncSkipStuffing(c, skip_bits(g, 8 + c.pict_type))
    ELSE g

\* variant: the run is compared with the prefix length of an I picture
IsResyncPrefixLongEnough_AsIntra(c, len) ==
    len >= ff_mpeg4_get_video_packet_prefix_length(AV_PICTURE_TYPE_I, c.f_code, c.b_code)

\* the test of line 423
IsResyncPrefixLongEnough(c, len) ==
    len >= ff_mpeg4_get_video_packet_prefix_length(c.pict_type, c.f_code, c.b_code)

\* variant: the reader is left behind the macroblock number
IsResyncMarker_NoRestore(c, g) ==
    LET mb_num_bits == av_log2(c.mb_num - 1) + 1
        g1     == align_get_bits(skip_bits(g, 1))
        len    == CountZeros(g1.buf, g1.index, 32)
        g2     == skip_bits(g1, IF len < 32 THEN len + 1 ELSE 32)
        read   == show_bits(g2, mb_num_bits)
        g3     == skip_bits(g2, mb_num_bits)
        mb_num == IF read = 0 \/ read > c.mb_num
                     \/ get_bits_count(g3) + 6 > size_in_bits(g3)
                  THEN -1 ELSE read
    IN  IF IsResyncPrefixLongEnough(c, len)
        THEN IsResyncResult(g3, mb_num, "prefix", len)
        ELSE IsResyncResult(g3, 0, "short", len)

\* the resync prefix has been seen (lines 408-425): the zero run and the
\* macroblock number are read from a reader that is then restored
IsResyncMarker(c, g) ==
    LET mb_num_bits == av_log2(c.mb_num - 1) + 1
        g1     == align_get_bits(skip_bits(g, 1))
        len    == CountZeros(g1.buf, g1.index, 32)
        g2     == skip_bits(g1, IF len < 32 THEN len + 1 ELSE 32)
        read   == show_bits(g2, mb_num_bits)
        g3     == skip_bits(g2, mb_num_bits)
        mb_num == IF read = 0 \/ read > c.mb_num
                     \/ get_bits_count(g3) + 6 > size_in_bits(g3)
                  THEN -1 ELSE read
    IN  IF IsResyncPrefixLongEnough(c, len)
        THEN IsResyncResult(g, mb_num, "prefix", len)
        ELSE IsResyncResult(g, 0, "short", len)

\* lines 396-428, with the reader g left by the stuffing loop
IsResyncAfterStuffing(c, g) ==
    LET bits_count == get_bits_count(g)
        v == show_bits(g, 16)
        k == bits_count % 8
    IN  IF bits_count + 8 >= size_in_bits(g)
        THEN LET v8 == Shr(v, 8)
                 vm == v8 - (v8 % Pow2(k)) + (Pow2(k) - 1)
             IN  IF vm = 127
                 THEN IsResyncResult(g, c.mb_num, "end", -1)
                 ELSE IsResyncResult(g, 0, "none", -1)
        ELSE IF v = mpeg4_resync_prefix[k + 1]
             THEN IsResyncMarker(c, g)
             ELSE IsResyncResult(g, 0, "none", -1)

mpeg4_is_resync(c, g) ==
    IF "NO_PADDING" \in c.workaround_bugs /\ c.resync_marker = 0
    THEN IsResyncResult(g, 0, "no_padding", -1)
    ELSE IsResyncAfterStuffing(c, IsResyncSkipStuffing(c, g))

(***************************************************************************)
(* mpeg4_update_thread_context (lines 3874-3926): the fields of s1 copied  *)
(* into s.  update_mpvctx and ff_mpeg_update_thread_context work on the    *)
(* MpegEncContext part only; when one of them fails nothing is copied.     *)
(***************************************************************************)
ThreadContextFields ==
    {"time_increment_bits", "shape", "vol_sprite_usage", "sprite_brightness_change",
     "sprite_warping_accuracy", "num_sprite_warping_points", "data_partitioning",
     "mpeg_quant", "rvlc", "resync_marker", "t_frame", "new_pred",
     "enhancement_type", "scalability", "intra_dc_threshold", "divx_version",
     "divx_build", "xvid_build", "lavc_build", "vo_type", "vol_control_parameters",
     "cplx_estimation_trash_i", "cplx_estimation_trash_p", "cplx_estimation_trash_b",
     "skipped_last_frame", "sprite_shift", "sprite_traj"}

mpeg4_update_thread_context(s, s1, mpv_ret) ==
    IF mpv_ret < 0 THEN [ctx |-> s, ret |-> mpv_ret]
    ELSE [ctx |-> [f \in DOMAIN s |-> IF f \in ThreadContextFields THEN s1[f] ELSE s[f]],
          ret |-> 0]

(***************************************************************************)
(* mpeg4_decode_block: the coefficient loop (lines 1457-1627).  The        *)
(* run/level tables are those of h263data.c and mpeg4data.h in the form    *)
(* ff_rl_init_vlc stores them: run + 1, with 192 added for a last          *)
(* coefficient; level * qmul + qadd; level 0 and run 66 for the escape     *)
(* code; level MAX_LEVEL and run 66 for a code the table does not have.    *)
(***************************************************************************)
MAX_LEVEL == 64

\* codes of ff_h263_rl_inter: bits, last, run, level (level 0: the escape)
h263_rl_inter ==
    << [bits |-> <<1, 0>>, last |-> 0, run |-> 0, level |-> 1],
       [bits |-> <<1, 1, 1, 1>>, last |-> 0, run |-> 0, level |-> 2],
       [bits |-> <<1, 1, 0>>, last |-> 0, run |-> 1, level |-> 1],
       [bits |-> <<1, 1, 1, 0>>, last |-> 0, run |-> 2, level |-> 1],
       [bits |-> <<0, 1, 1, 1>>, last |-> 1, run |-> 0, level |-> 1],
       [bits |-> <<0, 0, 0, 0, 0, 1, 1>>, last |-> 0, run |-> 65, level |-> 0] >>

\* codes of ff_rvlc_rl_inter
rvlc_rl_inter ==
    << [bits |-> <<1, 1, 0>>, last |-> 0, run |-> 0, level |-> 1],
       [bits |-> <<0, 0, 0, 0>>, last |-> 0, run |-> 65, level |-> 0] >>

\* rl->max_level[last][run] and rl->max_run[last][level] of ff_h263_rl_inter
rl_max_level(last, run) ==
    IF last = 0
    THEN CASE run = 0 -> 12 [] run = 1 -> 6 [] run = 2 -> 4 [] OTHER -> 1
    ELSE CASE run = 0 -> 3 [] run = 1 -> 2 [] OTHER -> 1

rl_max_run(last, level) ==
    IF last = 0
    THEN CASE level = 1 -> 26 [] level = 2 -> 10 [] level = 3 -> 6 [] OTHER -> 0
    ELSE CASE level = 1 -> 40 [] level = 2 -> 1 [] OTHER -> 0

\* the bits b stand in front of the reader
BitsAhead(g, b) == \A x \in 1..Len(b) : BitAt(g.buf, g.index + x - 1) = b[x]

\* GET_RL_VLC: level and run of the code in front of the reader, and the
\* reader after it
GET_RL_VLC(g, rl, qmul, qadd) ==
    LET hit == {x \in 1..Len(rl) : BitsAhead(g, rl[x].bits)}
    IN  IF hit = {} THEN [level |-> MAX_LEVEL, run |-> 66, gb |-> g]
        ELSE LET e == rl[CHOOSE x \in hit : TRUE]
             IN  [level |-> IF e.level = 0 THEN 0 ELSE e.level * qmul + qadd,
                  run   |-> e.run + 1 + 192 * e.last,
                  gb    |-> skip_bits(g, Len(e.bits))]

\* SHOW_SBITS(n): n bits as a two's complement value
show_sbits(g, n) ==
    LET v == show_bits(g, n) IN IF v >= Pow2(n - 1) THEN v - Pow2(n) ELSE v

\* (level ^ SHOW_SBITS(1)) - SHOW_SBITS(1), and the sign bit skipped
CoefSigned(level, g) ==
    [level |-> IF show_bits(g, 1) = 1 THEN -level ELSE level, gb |-> skip_bits(g, 1)]

\* one coefficient read: path names the branch, ok is FALSE where the
\* branch returns AVERROR_INVALIDDATA
Coef(path, ok, i, level, g) ==
    [path |-> path, ok |-> ok, i |-> i, level |-> level, gb |-> g,
     table_level |-> -1, next_bits |-> <<>>]

\* the escape of the reversible tables (lines 1466-1502)
CoefRvlcEscape(k, i, g) ==
    LET last  == show_bits(skip_bits(g, 1), 1)
        run   == show_bits(skip_bits(g, 2), 6)
        g1    == skip_bits(g, 1 + 1 + 6)
        lv    == show_bits(skip_bits(g1, 1), 11)
        g2    == skip_bits(g1, 1 + 11)
        neg   == show_bits(skip_bits(g2, 5), 1) = 1
        level == lv * k.qmul + k.qadd
    IN  IF show_bits(g, 1) = 0 \/ show_bits(g1, 1) = 0 \/ show_bits(g2, 5) # 16
        THEN Coef("rvlc_escape", FALSE, i, 0, g)
        ELSE Coef("rvlc_escape", TRUE, i + run + 1 + (IF last = 1 THEN 192 ELSE 0),
                  IF neg THEN -level ELSE level, skip_bits(g2, 5 + 1))

\* the third escape (lines 1511-1580), after its two selector bits
CoefThirdEscape(k, i, g) ==
    LET last  == show_bits(g, 1)
        run   == show_bits(skip_bits(g, 1), 6)
        g1    == skip_bits(g, 1 + 6)
        m1    == show_bits(g1, 1)
        lv    == show_sbits(skip_bits(g1, 1), 12)
        g2    == skip_bits(g1, 1 + 12)
        m2    == show_bits(g2, 1)
        g3    == skip_bits(g2, 1)
        level == IF lv > 0 THEN lv * k.qmul + k.qadd ELSE lv * k.qmul - k.qadd
        wide  == level + 2048 < 0 \/ level + 2048 > 4095
    IN  IF m1 = 0 /\ (~k.ignore_err \/ get_bits_left(g1) <= 0)
        THEN Coef("third_escape", FALSE, i, 0, g)
        ELSE IF m2 = 0 /\ (~k.ignore_err \/ get_bits_left(g2) <= 0)
        THEN Coef("third_escape", FALSE, i, 0, g)
        ELSE IF wide /\ k.bitstream_err /\ (level > 2560 \/ level < -2560)
        THEN Coef("third_escape", FALSE, i, 0, g)
        ELSE Coef("third_escape", TRUE, i + run + 1 + (IF last = 1 THEN 192 ELSE 0),
                  IF wide THEN (IF level < 0 THEN -2048 ELSE 2047) ELSE level, g3)

\* the second escape (lines 1581-1588), after its two selector bits
CoefSecondEscape(k, i, g) ==
    LET t == GET_RL_VLC(g, k.rl, k.qmul, k.qadd)
        s == CoefSigned(t.level, t.gb)
    IN  Coef("second_escape", TRUE,
             i + t.run + rl_max_run(t.run \div 128, t.level \div k.qmul) + 1,
             s.level, s.gb)

\* the first escape (lines 1590-1597), after its selector bit
CoefFirstEscape(k, i, g) ==
    LET t == GET_RL_VLC(g, k.rl, k.qmul, k.qadd)
        s == CoefSigned(t.level + rl_max_level(t.run \div 128, (t.run - 1) % 64) * k.qmul,
                        t.gb)
    IN  Coef("first_escape", TRUE, i + t.run, s.level, s.gb)

\* variant: the second selector bit is tested before the first
CoefEscape_SecondBitFirst(k, i, g) ==
    IF k.rvlc THEN CoefRvlcEscape(k, i, g)
    ELSE IF show_bits(skip_bits(g, 1), 1) = 1
         THEN IF show_bits(g, 1) = 1
              THEN CoefThirdEscape(k, i, skip_bits(g, 2))
              ELSE CoefSecondEscape(k, i, skip_bits(g, 2))
         ELSE CoefFirstEscape(k, i, skip_bits(g, 1))

\* the escape (lines 1464-1598): the tier chosen by the bits after the code
CoefEscape(k, i, g) ==
    IF k.rvlc THEN CoefRvlcEscape(k, i, g)
    ELSE IF show_bits(g, 1) = 1
         THEN IF show_bits(skip_bits(g, 1), 1) = 1
              THEN CoefThirdEscape(k, i, skip_bits(g, 2))
              ELSE CoefSecondEscape(k, i, skip_bits(g, 2))
         ELSE CoefFirstEscape(k, i, skip_bits(g, 1))

\* one (run, level) pair (lines 1461-1603)
CoefRead(k, i, g) ==
    LET t == GET_RL_VLC(g, k.rl, k.qmul, k.qadd)
        nb == <<show_bits(t.gb, 1), show_bits(skip_bits(t.gb, 1), 1)>>
    IN  IF t.level = 0
        THEN [CoefEscape(k, i, t.gb) EXCEPT !.table_level = 0, !.next_bits = nb]
        ELSE LET s == CoefSigned(t.level, t.gb)
             IN  [Coef("direct", TRUE, i + t.run, s.level, s.gb) EXCEPT
                      !.table_level = t.level, !.next_bits = nb]

\* the test of line 1605: the position says that the block ends
CoefEnds(i) == i > 62

\* variant: only a position above 63 is refused
CoefDamaged_HighOnly(i) == i - 192 > 63

\* the test of line 1607 on the position without its 192: i & ~63
CoefDamaged(i) == i - 192 < 0 \/ i - 192 > 63

\* the store block[scan_table[i]] = level
CoefStore(st, i, level, g) ==
    [st EXCEPT !.i = i, !.gb = g,
               !.stores = Append(@, [i |-> i, level |-> level])]

\* the end of a turn of the loop (lines 1604-1618), c being the
\* coefficient read
DecodeBlockTurn(st, c) ==
    LET s1 == [st EXCEPT !.coefs = Append(@, [path |-> c.path, ok |-> c.ok,
                                              table_level |-> c.table_level,
                                              from |-> st.i, i |-> c.i,
                                              next_bits |-> c.next_bits])]
    IN  IF ~c.ok
        THEN [s1 EXCEPT !.ret = AVERROR_INVALIDDATA, !.running = FALSE]
        ELSE IF CoefEnds(c.i)
        THEN IF CoefDamaged(c.i)
             THEN [s1 EXCEPT !.ret = AVERROR_INVALIDDATA, !.running = FALSE]
             ELSE [CoefStore(s1, c.i - 192, c.level, c.gb) EXCEPT !.running = FALSE]
        ELSE CoefStore(s1, c.i, c.level, c.gb)

\* one turn of the loop (lines 1459-1619); st holds the position i, the
\* reader, the stores made, the branch taken by each coefficient and ret
DecodeBlockStep(k, st) == DecodeBlockTurn(st, CoefRead(k, st.i, st.gb))

RECURSIVE DecodeBlockLoop(_, _)
DecodeBlockLoop(k, st) ==
    IF st.running THEN DecodeBlockLoop(k, DecodeBlockStep(k, st)) ELSE st

\* qmul and qadd (lines 1433-1455)
DecodeBlockScale(c, intra) ==
    IF intra \/ c.mpeg_quant # 0 THEN [qmul |-> 1, qadd |-> 0]
    ELSE [qmul |-> 2 * c.qscale,
          qadd |-> IF c.qscale % 2 = 1 THEN c.qscale ELSE c.qscale - 1]

\* what the call returns and leaves, st being the state the loop ended in
DecodeBlockResult(g, st) ==
    [ret |-> st.ret, gb |-> IF st.ret < 0 THEN g ELSE st.gb,
     stores |-> st.stores, coefs |-> st.coefs, i |-> st.i]

\* mpeg4_decode_block for a coded block, from the choice of the tables on:
\* i0 is the position the DC part left (-1, or 0 after an intra DC code).
\* The reader of the context is written back only by CLOSE_READER, which an
\* error return does not reach.
mpeg4_decode_block(c, g, intra, i0, rvlc, err_recognition) ==
    LET q  == DecodeBlockScale(c, intra)
        k  == [rl |-> IF rvlc THEN rvlc_rl_inter ELSE h263_rl_inter, rvlc |-> rvlc,
               qmul |-> q.qmul, qadd |-> q.qadd,
               ignore_err |-> "IGNORE_ERR" \in err_recognition,
               bitstream_err |-> "BITSTREAM" \in err_recognition]
    IN  DecodeBlockResult(g,
            DecodeBlockLoop(k, [i |-> i0, gb |-> g, stores |-> <<>>, coefs |-> <<>>,
                                ret |-> 0, running |-> TRUE]))

(***************************************************************************)
(* mpeg4_pred_dc.  dc_val + block_index[n] is the window dcw of the four   *)
(* entries the function can read, addressed like the C pointer.            *)
(***************************************************************************)
\* variant: the left neighbour is never replaced by 1024
PredDcNeighbours_KeepLeft(c, n, dc_val, wrap) ==
    LET fs == c.first_slice_line = 1 /\ n # 3
    IN  [a |-> dc_val[-1],
         b |-> IF fs THEN 1024 ELSE dc_val[-1 - wrap],
         c |-> IF fs /\ n # 2 THEN 1024 ELSE dc_val[-wrap]]

\* the neighbours after the outside-slice handling (lines 909-921)
PredDcNeighbours(c, n, dc_val, wrap) ==
    LET a0 == dc_val[-1]
        b0 == dc_val[-1 - wrap]
        c0 == dc_val[-wrap]
        fs == c.first_slice_line = 1 /\ n # 3
        b1 == IF fs /\ n # 2 THEN 1024 ELSE b0
        c1 == IF fs /\ n # 2 THEN 1024 ELSE c0
        b2 == IF fs /\ n # 1 /\ c.mb_x = c.resync_mb_x THEN 1024 ELSE b1
        a2 == IF fs /\ n # 1 /\ c.mb_x = c.resync_mb_x THEN 1024 ELSE a0
        b3 == IF c.mb_x = c.resync_mb_x /\ c.mb_y = c.resync_mb_y + 1
                 /\ n \in {0, 4, 5}
              THEN 1024 ELSE b2
    IN  [a |-> a2, b |-> b3, c |-> c1]

\* variant: equal gradients take the top neighbour
PredDcTakesTop_OnTie(a, b, c) == Abs(a - b) <= Abs(b - c)

\* the choice between the top and the left neighbour (lines 923-929)
PredDcTakesTop(a, b, c) == Abs(a - b) < Abs(b - c)

mpeg4_pred_dc(c, n, dc_val, wrap) ==
    LET nb == PredDcNeighbours(c, n, dc_val, wrap)
    IN  IF PredDcTakesTop(nb.a, nb.b, nb.c)
        THEN [pred |-> nb.c, dir |-> 1, a |-> nb.a, b |-> nb.b, c |-> nb.c]
        ELSE [pred |-> nb.a, dir |-> 0, a |-> nb.a, b |-> nb.b, c |-> nb.c]

(***************************************************************************)
(* decode_vol_header                                                       *)
(***************************************************************************)
ff_zigzag_direct ==
    <<0, 1, 8, 16, 9, 2, 3, 10, 17, 24, 32, 25, 18, 11, 4, 5,
      12, 19, 26, 33, 40, 48, 41, 34, 27, 20, 13, 6, 7, 14, 21, 28,
      35, 42, 49, 56, 57, 50, 43, 36, 29, 22, 15, 23, 30, 37, 44, 51,
      58, 59, 52, 45, 38, 31, 39, 46, 53, 60, 61, 54, 47, 55, 62, 63>>

ff_mpeg4_default_intra_matrix ==
    <<8, 17, 18, 19, 21, 23, 25, 27, 17, 18, 19, 21, 23, 25, 27, 28,
      20, 21, 22, 23, 24, 26, 28, 30, 21, 22, 23, 24, 26, 28, 30, 32,
      22, 23, 24, 26, 28, 30, 32, 35, 23, 24, 26, 28, 30, 32, 35, 38,
      25, 26, 28, 30, 32, 35, 38, 41, 27, 28, 30, 32, 35, 38, 41, 45>>

ff_mpeg4_default_non_intra_matrix ==
    <<16, 17, 18, 19, 20, 21, 22, 23, 17, 18, 19, 20, 21, 22, 23, 24,
      18, 19, 20, 21, 22, 23, 24, 25, 19, 20, 21, 22, 23, 24, 26, 27,
      20, 21, 22, 23, 25, 26, 27, 28, 21, 22, 23, 24, 26, 27, 28, 30,
      22, 23, 24, 26, 27, 28, 30, 31, 23, 24, 25, 27, 28, 30, 31, 33>>

\* mpeg4_load_default_matrices (lines 2469-2484)
mpeg4_load_default_matrices(c) ==
    LET perm == c.idct_permutation
        inv(j) == CHOOSE i \in 0..63 : perm[i] = j
        intra == [j \in 0..63 |-> ff_mpeg4_default_intra_matrix[inv(j) + 1]]
        inter == [j \in 0..63 |-> ff_mpeg4_default_non_intra_matrix[inv(j) + 1]]
    IN  [c EXCEPT !.intra_matrix = intra, !.chroma_intra_matrix = intra,
                  !.inter_matrix = inter, !.chroma_inter_matrix = inter]

\* variant: the scan order is left out
QuantMatrixIndex_NoZigzag(perm, i) == perm[i]

\* position of the i-th value of a custom matrix (lines 2831, 2837)
QuantMatrixIndex(perm, i) == perm[ff_zigzag_direct[i + 1]]

\* "replicate last value" (lines 2836-2839): entries i..63 in scan order
QuantMatrixReplicate(m, perm, i, last) ==
    [j \in 0..63 |->
        IF \E t \in i..63 : QuantMatrixIndex(perm, t) = j THEN last ELSE m[j]]

\* the i-th byte from the read position on
QuantMatrixByte(g, i) == show_bits(skip_bits(g, 8 * i), 8)

\* the loop reading a custom matrix (lines 2820-2833) ends at value i: too few
\* bits are left (line 2822) or the value is zero (line 2827)
QuantMatrixStops(g, i) ==
    \/ get_bits_left(g) - 8 * i < 8
    \/ QuantMatrixByte(g, i) = 0

\* the loop reading a custom matrix and the replication after it
\* (lines 2820-2840): values 0..n-1 are stored in scan order, a later store
\* to the same entry replacing an earlier one
QuantMatrixRead(m, perm, g) ==
    LET stops == {i \in 0..63 : QuantMatrixStops(g, i)}
        n     == IF stops = {} THEN 64
                 ELSE CHOOSE i \in stops : \A t \in stops : i <= t
        short == n < 64 /\ get_bits_left(g) - 8 * n < 8
        last  == IF n = 0 THEN 0 ELSE QuantMatrixByte(g, n - 1)
        read  == [j \in 0..63 |->
                    LET at == {i \in 0..(n - 1) : QuantMatrixIndex(perm, i) = j}
                    IN  IF at = {} THEN m[j]
                        ELSE QuantMatrixByte(g, CHOOSE i \in at : \A t \in at : t <= i)]
    IN  IF short
        THEN [matrix |-> read, gb |-> skip_bits(g, 8 * n),
              ret |-> AVERROR_INVALIDDATA, n |-> n]
        ELSE IF n < 64
             THEN [matrix |-> QuantMatrixReplicate(read, perm, n, last),
                   gb |-> skip_bits(g, 8 * (n + 1)), ret |-> 0, n |-> n]
             ELSE [matrix |-> read, gb |-> skip_bits(g, 8 * 64), ret |-> 0, n |-> 64]

\* a custom matrix, if its load flag is set (lines 2818-2840 and 2843-2865)
QuantMatrixLoad(m, perm, g) ==
    IF show_bits(g, 1) = 1
    THEN QuantMatrixRead(m, perm, skip_bits(g, 1))
    ELSE [matrix |-> m, gb |-> skip_bits(g, 1), ret |-> 0, n |-> -1]

\* number of 1 bits among the next n bits
RECURSIVE OnesIn(_, _)
OnesIn(g, n) == IF n = 0 THEN 0 ELSE show_bits(g, 1) + OnesIn(skip_bits(g, 1), n - 1)

\* no_cplx_est: (lines 2929-2934)
NoCplxEst(c) ==
    [c EXCEPT !.cplx_estimation_trash_i = 0,
              !.cplx_estimation_trash_p = 0,
              !.cplx_estimation_trash_b = 0]

\* the weighted sum of the flags of counter k among the bits after g:
\* wts[x] = <<counter, weight>> with counter 1 = i, 2 = p, 3 = b
CplxAdd(g, wts, k) ==
    LET S == {x \in 1..Len(wts) : wts[x][1] = k}
        f[T \in SUBSET S] ==
            IF T = {} THEN 0
            ELSE LET x == CHOOSE y \in T : TRUE
                 IN  wts[x][2] * BitAt(g.buf, g.index + x - 1) + f[T \ {x}]
    IN  f[S]

\* the flags of a group whose disable bit is 0
CplxFlags(s, g, wts) ==
    [s EXCEPT !.t = <<@[1] + CplxAdd(g, wts, 1), @[2] + CplxAdd(g, wts, 2),
                      @[3] + CplxAdd(g, wts, 3)>>,
              !.gb = skip_bits(g, Len(wts))]

\* an optional group of flags, each adding its weight to a counter; s holds
\* the counters t, the reader gb and ok, FALSE once a marker was missing
CplxGroup(s, wts) ==
    IF ~s.ok THEN s
    ELSE IF show_bits(s.gb, 1) = 1 THEN [s EXCEPT !.gb = skip_bits(s.gb, 1)]
    ELSE CplxFlags(s, skip_bits(s.gb, 1), wts)

\* check_marker inside the complexity estimation header
CplxMarker(s) ==
    IF ~s.ok THEN s
    ELSE IF show_bits(s.gb, 1) = 0 THEN [s EXCEPT !.ok = FALSE]
    ELSE [s EXCEPT !.gb = skip_bits(s.gb, 1)]

\* the counters stored in the context
CplxStore(c, t) ==
    [c EXCEPT !.cplx_estimation_trash_i = t[1],
              !.cplx_estimation_trash_p = t[2],
              !.cplx_estimation_trash_b = t[3]]

\* variant: the reader is not moved back after a missing marker
CplxEnd_NoRewind(c, g, method, s) ==
    IF ~s.ok THEN [ctx |-> NoCplxEst(c), gb |-> s.gb]
    ELSE IF method = 1
         THEN [ctx |-> CplxStore(c, <<s.t[1] + 8 * show_bits(s.gb, 1),
                                      s.t[2] + 8 * show_bits(skip_bits(s.gb, 1), 1),
                                      s.t[3]>>),
               gb |-> skip_bits(s.gb, 2)]
         ELSE [ctx |-> CplxStore(c, s.t), gb |-> s.gb]

\* the end of the complexity estimation header: the rewind to pos and
\* no_cplx_est after a missing marker, the two flags of method 1 otherwise
CplxEnd(c, g, method, s) ==
    IF ~s.ok THEN [ctx |-> NoCplxEst(c), gb |-> g]
    ELSE IF method = 1
         THEN [ctx |-> CplxStore(c, <<s.t[1] + 8 * show_bits(s.gb, 1),
                                      s.t[2] + 8 * show_bits(skip_bits(s.gb, 1), 1),
                                      s.t[3]>>),
               gb |-> skip_bits(s.gb, 2)]
         ELSE [ctx |-> CplxStore(c, s.t), gb |-> s.gb]

\* the complexity estimation header (lines 2880-2934), after its disable bit
CplxEstimation(c, g) ==
    LET method == show_bits(g, 2)
        s0     == [t  |-> <<c.cplx_estimation_trash_i, c.cplx_estimation_trash_p,
                            c.cplx_estimation_trash_b>>,
                   gb |-> skip_bits(g, 2), ok |-> TRUE]
    IN  IF method >= 2 THEN [ctx |-> c, gb |-> skip_bits(g, 2)]
        ELSE CplxEnd(c, g, method,
                 CplxMarker(
                     CplxGroup(
                         CplxGroup(
                             CplxMarker(
                                 CplxGroup(
                                     CplxGroup(s0, <<<<1, 8>>, <<1, 8>>, <<1, 8>>,
                                                     <<1, 8>>, <<1, 8>>, <<1, 8>>>>),
                                     <<<<1, 8>>, <<2, 8>>, <<2, 8>>, <<1, 8>>>>)),
                             <<<<1, 8>>, <<1, 8>>, <<1, 8>>, <<1, 4>>>>),
                         <<<<2, 8>>, <<2, 8>>, <<3, 8>>, <<2, 8>>, <<2, 8>>, <<2, 8>>>>)))

SIMPLE_VO_TYPE == 1
ADV_SIMPLE_VO_TYPE == 17
SIMPLE_STUDIO_VO_TYPE == 14
CORE_STUDIO_VO_TYPE == 15
FF_ASPECT_EXTENDED == 15

\* the header returns r
VolResult(c, g, r) == [ctx |-> c, gb |-> g, ret |-> r, done |-> TRUE, vo_ver_id |-> 0]

\* parsing goes on with the next part of the header
VolNext(c, g, vo_ver_id) ==
    [ctx |-> c, gb |-> g, ret |-> 0, done |-> FALSE, vo_ver_id |-> vo_ver_id]

VolNextOf(s, vo_ver_id) == VolNext(s.ctx, s.gb, vo_ver_id)

\* the scalability header (lines 2955-2985)
VolScalability(r) ==
    IF r.done THEN r ELSE
    LET c == r.ctx
        g == r.gb
        vo_ver_id == r.vo_ver_id
    IN
    LET c1 == [c EXCEPT !.scalability = show_bits(g, 1)]
        g1 == skip_bits(g, 1)
    IN  IF c1.scalability = 0 THEN VolResult(c1, g1, 0)
        ELSE LET g2  == skip_bits(g1, 1 + 4 + 1)
                 hn  == show_bits(g2, 5)
                 hm  == show_bits(skip_bits(g2, 5), 5)
                 vn  == show_bits(skip_bits(g2, 10), 5)
                 vm  == show_bits(skip_bits(g2, 15), 5)
                 g3  == skip_bits(g2, 20)
                 c2  == [c1 EXCEPT !.enhancement_type = show_bits(g3, 1)]
             IN  IF hn = 0 \/ hm = 0 \/ vn = 0 \/ vm = 0
                 THEN VolResult([c2 EXCEPT !.scalability = 0], g1, 0)
                 ELSE VolResult(c2, skip_bits(g3, 1), 0)

\* resync marker, data partitioning, new pred (lines 2936-2953)
VolErrorResilience(r) ==
    IF r.done THEN r ELSE
    LET c == r.ctx
        g == r.gb
        vo_ver_id == r.vo_ver_id
    IN
    LET c1 == [c EXCEPT !.resync_marker = 1 - show_bits(g, 1),
                        !.data_partitioning = show_bits(skip_bits(g, 1), 1)]
        g1 == skip_bits(g, 2)
        c2 == IF c1.data_partitioning = 1
              THEN [c1 EXCEPT !.rvlc = show_bits(g1, 1)] ELSE c1
        g2 == IF c1.data_partitioning = 1 THEN skip_bits(g1, 1) ELSE g1
    IN  IF vo_ver_id # 1
        THEN LET c3 == [c2 EXCEPT !.new_pred = show_bits(g2, 1)]
                 g3 == IF c3.new_pred = 1 THEN skip_bits(g2, 1 + 2 + 1)
                       ELSE skip_bits(g2, 1)
             IN  VolNext(c3, skip_bits(g3, 1), vo_ver_id)
        ELSE VolNext([c2 EXCEPT !.new_pred = 0], g2, vo_ver_id)

\* quarter sample and the complexity estimation header (lines 2870-2934)
VolComplexity(r) ==
    IF r.done THEN r ELSE
    LET c == r.ctx
        g == r.gb
        vo_ver_id == r.vo_ver_id
    IN
    LET c1 == [c EXCEPT !.quarter_sample =
                   IF vo_ver_id # 1 THEN show_bits(g, 1) ELSE 0]
        g1 == IF vo_ver_id # 1 THEN skip_bits(g, 1) ELSE g
    IN  IF get_bits_left(g1) < 4 THEN VolResult(c1, g1, AVERROR_INVALIDDATA)
        ELSE IF show_bits(g1, 1) = 0
             THEN VolNextOf(CplxEstimation(c1, skip_bits(g1, 1)), vo_ver_id)
             ELSE VolNext(NoCplxEst(c1), skip_bits(g1, 1), vo_ver_id)

\* the custom intra matrix as read (lines 2818-2840)
VolIntraMatrixLoaded(c, vo_ver_id, m) ==
    IF m.ret < 0 THEN VolResult([c EXCEPT !.intra_matrix = m.matrix], m.gb, m.ret)
    ELSE VolNext([c EXCEPT !.intra_matrix = m.matrix], m.gb, vo_ver_id)

\* the custom non intra matrix as read (lines 2843-2865)
VolInterMatrixLoaded(c, vo_ver_id, m) ==
    IF m.ret < 0 THEN VolResult([c EXCEPT !.inter_matrix = m.matrix], m.gb, m.ret)
    ELSE VolNext([c EXCEPT !.inter_matrix = m.matrix], m.gb, vo_ver_id)

\* load custom non intra matrix (lines 2842-2865)
VolInterMatrix(r) ==
    IF r.done \/ r.ctx.mpeg_quant = 0 THEN r
    ELSE VolInterMatrixLoaded(r.ctx, r.vo_ver_id,
             QuantMatrixLoad(r.ctx.inter_matrix, r.ctx.idct_permutation, r.gb))

\* load custom intra matrix (lines 2817-2840)
VolIntraMatrix(r) ==
    IF r.done \/ r.ctx.mpeg_quant = 0 THEN r
    ELSE VolIntraMatrixLoaded(r.ctx, r.vo_ver_id,
             QuantMatrixLoad(r.ctx.intra_matrix, r.ctx.idct_permutation, r.gb))

\* vol_quant_type and the default matrices (lines 2812-2815)
VolQuantType(r) ==
    IF r.done THEN r
    ELSE IF show_bits(r.gb, 1) = 0
         THEN VolNext([r.ctx EXCEPT !.mpeg_quant = 0], skip_bits(r.gb, 1), r.vo_ver_id)
         ELSE VolNext(mpeg4_load_default_matrices([r.ctx EXCEPT !.mpeg_quant = 1]),
                      skip_bits(r.gb, 1), r.vo_ver_id)

\* vol_quant_type and the custom matrices (lines 2812-2868)
VolQuantMatrices(r) == VolInterMatrix(VolIntraMatrix(VolQuantType(r)))

\* not_8_bit and quant_precision (lines 2797-2808)
VolQuantPrecision(r) ==
    IF r.done THEN r ELSE
    LET c == r.ctx
        g == r.gb
        vo_ver_id == r.vo_ver_id
    IN
    IF show_bits(g, 1) = 1
    THEN LET qp == show_bits(skip_bits(g, 1), 4)
         IN  VolNext(
                 [c EXCEPT !.quant_precision = IF qp < 3 \/ qp > 9 THEN 5 ELSE qp],
                 skip_bits(g, 1 + 4 + 4), vo_ver_id)
    ELSE VolNext([c EXCEPT !.quant_precision = 5], skip_bits(g, 1), vo_ver_id)

\* variant: the coded number of warping points is kept when it is rejected
VolSprite_KeepPoints(r) ==
    IF r.done THEN r ELSE
    LET c == r.ctx
        g == r.gb
        vo_ver_id == r.vo_ver_id
    IN
    LET c1 == [c EXCEPT !.vol_sprite_usage =
                   IF vo_ver_id = 1 THEN show_bits(g, 1) ELSE show_bits(g, 2)]
        g1 == skip_bits(g, IF vo_ver_id = 1 THEN 1 ELSE 2)
    IN  IF c1.vol_sprite_usage \in {STATIC_SPRITE, GMC_SPRITE}
        THEN LET g2 == IF c1.vol_sprite_usage = STATIC_SPRITE
                       THEN skip_bits(g1, 4 * 14) ELSE g1
                 np == show_bits(g2, 6)
                 g3 == skip_bits(g2, 6)
             IN  IF np > 3
                 THEN VolResult([c1 EXCEPT !.num_sprite_warping_points = np], g3,
                                AVERROR_INVALIDDATA)
                 ELSE LET c2 == [c1 EXCEPT
                                   !.num_sprite_warping_points = np,
                                   !.sprite_warping_accuracy = show_bits(g3, 2),
                                   !.sprite_brightness_change =
                                       show_bits(skip_bits(g3, 2), 1)]
                          g4 == skip_bits(g3, 3)
                      IN  VolNext(c2,
                              IF c1.vol_sprite_usage = STATIC_SPRITE
                              THEN skip_bits(g4, 1) ELSE g4, vo_ver_id)
        ELSE VolNext(c1, g1, vo_ver_id)

\* the sprite part (lines 2763-2794)
VolSprite(r) ==
    IF r.done THEN r ELSE
    LET c == r.ctx
        g == r.gb
        vo_ver_id == r.vo_ver_id
    IN
    LET c1 == [c EXCEPT !.vol_sprite_usage =
                   IF vo_ver_id = 1 THEN show_bits(g, 1) ELSE show_bits(g, 2)]
        g1 == skip_bits(g, IF vo_ver_id = 1 THEN 1 ELSE 2)
    IN  IF c1.vol_sprite_usage \in {STATIC_SPRITE, GMC_SPRITE}
        THEN LET g2 == IF c1.vol_sprite_usage = STATIC_SPRITE
                       THEN skip_bits(g1, 4 * 14) ELSE g1
                 np == show_bits(g2, 6)
                 g3 == skip_bits(g2, 6)
             IN  IF np > 3
                 THEN VolResult([c1 EXCEPT !.num_sprite_warping_points = 0], g3,
                                AVERROR_INVALIDDATA)
                 ELSE LET c2 == [c1 EXCEPT
                                   !.num_sprite_warping_points = np,
                                   !.sprite_warping_accuracy = show_bits(g3, 2),
                                   !.sprite_brightness_change =
                                       show_bits(skip_bits(g3, 2), 1)]
                          g4 == skip_bits(g3, 3)
                      IN  VolNext(c2,
                              IF c1.vol_sprite_usage = STATIC_SPRITE
                              THEN skip_bits(g4, 1) ELSE g4, vo_ver_id)
        ELSE VolNext(c1, g1, vo_ver_id)

\* width, height, interlacing (lines 2740-2762)
VolSize(r) ==
    IF r.done THEN r ELSE
    LET c == r.ctx
        g == r.gb
        vo_ver_id == r.vo_ver_id
    IN
    IF c.shape = BIN_ONLY_SHAPE THEN VolResult(c, g, 0)
    ELSE LET width  == show_bits(skip_bits(g, 1), 13)
             height == show_bits(skip_bits(g, 1 + 13 + 1), 13)
             c1 == IF c.shape = RECT_SHAPE /\ width # 0 /\ height # 0
                      /\ ~(c.width # 0 /\ c.codec_tag_MP4S)
                   THEN [c EXCEPT !.context_reinit =
                                     IF c.width # 0 /\ c.height # 0
                                        /\ (c.width # width \/ c.height # height)
                                     THEN 1 ELSE @,
                                  !.width = width, !.height = height]
                   ELSE c
             g1 == IF c.shape = RECT_SHAPE THEN skip_bits(g, 1 + 13 + 1 + 13 + 1) ELSE g
             c2 == [c1 EXCEPT !.progressive_sequence = 1 - show_bits(g1, 1),
                              !.progressive_frame = 1 - show_bits(g1, 1),
                              !.interlaced_dct = 0]
         IN  VolNext(c2, skip_bits(g1, 2), vo_ver_id)

\* variant: the bit length of num - 1 without the bit added to it
VolTimeIncrementBits_Log2(num) == av_log2(num - 1)

\* the time increment resolution (lines 2719-2738)
VolTimeIncrementBits(num) ==
    LET b == av_log2(num - 1) + 1 IN IF b < 1 THEN 1 ELSE b

VolTiming(r) ==
    IF r.done THEN r ELSE
    LET c == r.ctx
        g == r.gb
        vo_ver_id == r.vo_ver_id
    IN
    LET num == show_bits(skip_bits(g, 1), 16)
        g1  == skip_bits(g, 17)
    IN  IF num = 0
        THEN VolResult([c EXCEPT !.framerate_num = 0], g1, AVERROR_INVALIDDATA)
        ELSE LET c1 == [c EXCEPT !.framerate_num = num,
                                 !.time_increment_bits = VolTimeIncrementBits(num)]
                 g2 == skip_bits(g1, 1)
                 fx == show_bits(g2, 1)
                 c2 == [c1 EXCEPT !.framerate_den =
                            IF fx # 0
                            THEN show_bits(skip_bits(g2, 1), c1.time_increment_bits)
                            ELSE 1,
                                  !.t_frame = 0]
                 g3 == IF fx # 0 THEN skip_bits(g2, 1 + c1.time_increment_bits)
                       ELSE skip_bits(g2, 1)
             IN  VolNext(c2, g3, vo_ver_id)

\* the shape (lines 2711-2717)
VolShape(r) ==
    IF r.done THEN r ELSE
    LET c == r.ctx
        g == r.gb
        vo_ver_id == r.vo_ver_id
    IN
    LET c1 == [c EXCEPT !.shape = show_bits(g, 2)]
        g1 == skip_bits(g, 2)
    IN  VolNext(c1, IF c1.shape = GRAY_SHAPE /\ vo_ver_id # 1
                      THEN skip_bits(g1, 4) ELSE g1, vo_ver_id)

\* vol control parameters (lines 2675-2709)
VolControl(r) ==
    IF r.done THEN r ELSE
    LET c == r.ctx
        g == r.gb
        vo_ver_id == r.vo_ver_id
    IN
    LET c1 == [c EXCEPT !.vol_control_parameters = show_bits(g, 1)]
        g1 == skip_bits(g, 1)
    IN  IF c1.vol_control_parameters # 0
        THEN LET c2  == [c1 EXCEPT !.low_delay = show_bits(skip_bits(g1, 2), 1)]
                 g2  == skip_bits(g1, 3)
                 vbv == show_bits(g2, 1)
             IN  VolNext(c2, IF vbv # 0 THEN skip_bits(g2, 1 + 79) ELSE skip_bits(g2, 1),
                          vo_ver_id)
        ELSE VolNext(IF c1.picture_number = 0
                      THEN [c1 EXCEPT !.low_delay =
                               IF c1.vo_type \in {SIMPLE_VO_TYPE, ADV_SIMPLE_VO_TYPE}
                               THEN 1 ELSE 0]
                      ELSE c1, g1, vo_ver_id)

\* decode_vol_header (lines 2638-3000).  The studio profile header
\* (decode_studio_vol_header) is a separate parser, left out: the streams of
\* the model carry no studio object type, and the result is then "studio".
VolStart(c, g) ==
    LET c1 == [c EXCEPT !.vo_type = show_bits(skip_bits(g, 1), 8)]
        g1 == skip_bits(g, 9)
    IN  IF c1.vo_type \in {CORE_STUDIO_VO_TYPE, SIMPLE_STUDIO_VO_TYPE}
        THEN VolResult([c1 EXCEPT !.studio_profile = 1], g1, "studio")
        ELSE IF c1.studio_profile = 1 THEN VolResult(c1, g1, AVERROR_PATCHWELCOME)
        ELSE LET ol == show_bits(g1, 1)
                 vo_ver_id == IF ol # 0 THEN show_bits(skip_bits(g1, 1), 4) ELSE 1
                 g2 == IF ol # 0 THEN skip_bits(g1, 1 + 4 + 3) ELSE skip_bits(g1, 1)
                 ar == show_bits(g2, 4)
                 g3 == IF ar = FF_ASPECT_EXTENDED THEN skip_bits(g2, 4 + 16)
                       ELSE skip_bits(g2, 4)
             IN  VolNext(c1, g3, vo_ver_id)

\* the parts of the header in the order of the code, each entered unless an
\* earlier one has returned
decode_vol_header(c, g) ==
    VolScalability(VolErrorResilience(VolComplexity(VolQuantMatrices(
        VolQuantPrecision(VolSprite(VolSize(VolTiming(VolShape(VolControl(
            VolStart(c, g)))))))))))

(***************************************************************************)
(* decode_vop_header                                                       *)
(***************************************************************************)
ff_mpeg4_dc_threshold == <<99, 13, 15, 17, 19, 21, 23, 0>>

\* x & m for a mask m = 2^k - 1 plus single bits, on the low 6 bits
BitAnd6(x, m) ==
    LET bit(v, k) == (v \div Pow2(k)) % 2
        f[k \in 0..6] == IF k = 6 THEN 0 ELSE bit(x, k) * bit(m, k) * Pow2(k) + f[k + 1]
    IN  f[0]

\* the test of one candidate width in the scan (lines 3240-3246)
TimeIncrementBitsMatch(c, g, bits) ==
    IF c.pict_type = AV_PICTURE_TYPE_P
       \/ (c.pict_type = AV_PICTURE_TYPE_S /\ c.vol_sprite_usage = GMC_SPRITE)
    THEN BitAnd6(show_bits(g, bits + 6), 55) = 48          \* & 0x37 == 0x30
    ELSE BitAnd6(show_bits(g, bits + 5), 31) = 24          \* & 0x1F == 0x18

\* variant: the scan starts one width too far
RECURSIVE TimeIncrementBitsScan_SkipFirst(_, _, _)
TimeIncrementBitsScan_SkipFirst(c, g, bits) ==
    IF bits + 1 >= 16 THEN 16
    ELSE IF TimeIncrementBitsMatch(c, g, bits + 1) THEN bits + 1
         ELSE TimeIncrementBitsScan_SkipFirst(c, g, bits + 1)

\* the for loop of lines 3237-3247, from width bits on
RECURSIVE TimeIncrementBitsScan(_, _, _)
TimeIncrementBitsScan(c, g, bits) ==
    IF bits >= 16 THEN bits
    ELSE IF TimeIncrementBitsMatch(c, g, bits) THEN bits
         ELSE TimeIncrementBitsScan(c, g, bits + 1)

\* variant: the width is derived from the bitstream on every VOP
TimeIncrementBitsInvalid_Always(c, g) == TRUE

\* the condition that starts the scan (lines 3232-3233)
TimeIncrementBitsInvalid(c, g) ==
    c.time_increment_bits = 0 \/ show_bits(g, c.time_increment_bits + 1) % 2 = 0

VopEv0 ==
    [healed |-> FALSE, tib_before |-> 0, time_incr |-> 0, time_increment |-> 0,
     time_increment_width |-> 0, pts_computed |-> FALSE, direct_mv_init |-> FALSE,
     vop_coded |-> -1, sprite_called |-> FALSE, sprite_ret |-> 0,
     sprite_passed |-> FALSE,
     sprite_guard |-> "none", offset64 |-> Wide2(Zero2), delta64 |-> Wide2(Zero2),
     reached_end |-> FALSE]

\* the header returns r
VopResult(c, g, r, e) ==
    [ctx |-> c, gb |-> g, ret |-> r, ev |-> e, done |-> TRUE, to_end |-> FALSE,
     parse_only |-> FALSE]

\* parsing goes on with the next part of the header
VopNext(c, g, e, parse_only) ==
    [ctx |-> c, gb |-> g, ret |-> 0, ev |-> e, done |-> FALSE, to_end |-> FALSE,
     parse_only |-> parse_only]

\* goto end
VopToEnd(c, g, e, parse_only) ==
    [ctx |-> c, gb |-> g, ret |-> 0, ev |-> e, done |-> FALSE, to_end |-> TRUE,
     parse_only |-> parse_only]

\* the label end: (lines 3465-3482)
VopEnd(r) ==
    IF r.done THEN r ELSE
    LET c == r.ctx
        g == r.gb
        e == r.ev
        parse_only == r.parse_only
    IN
    LET c1 == IF c.vo_type = 0 /\ c.vol_control_parameters = 0
                 /\ c.divx_version = -1 /\ c.picture_number = 0
              THEN [c EXCEPT !.low_delay = 1] ELSE c
        c2 == [c1 EXCEPT !.picture_number = @ + 1]
        c3 == IF "EDGE" \in c2.workaround_bugs
              THEN [c2 EXCEPT !.h_edge_pos = c2.width, !.v_edge_pos = c2.height]
              ELSE c2
    IN  VopResult(c3, g, 0, [e EXCEPT !.reached_end = TRUE])

\* shape coding type, scalability, the unquantize functions (lines 3446-3463)
VopTail(r) ==
    IF r.done \/ r.to_end THEN r ELSE
    LET c == r.ctx
        g == r.gb
        e == r.ev
        parse_only == r.parse_only
    IN
    LET g1 == IF c.shape = BIN_ONLY_SHAPE THEN g
              ELSE IF c.scalability = 0
                   THEN (IF c.shape # RECT_SHAPE /\ c.pict_type # AV_PICTURE_TYPE_I
                         THEN skip_bits(g, 1) ELSE g)
                   ELSE skip_bits(g, (IF c.enhancement_type # 0 THEN 1 ELSE 0) + 2)
        c1 == [c EXCEPT !.dct_unquantize_intra =
                            IF c.mpeg_quant # 0 THEN "mpeg2_intra" ELSE "h263_intra",
                        !.dct_unquantize_inter =
                            IF c.mpeg_quant # 0 THEN "mpeg2_inter" ELSE "NULL"]
    IN  VopToEnd(c1, g1, e, parse_only)

\* variant: a quantiser of 0 is let through
VopQuant_ZeroQuantiser(r) ==
    IF r.done \/ r.to_end THEN r ELSE
    LET c == r.ctx
        g == r.gb
        e == r.ev
        parse_only == r.parse_only
    IN
    LET c0 == [c EXCEPT !.f_code = 1, !.b_code = 1]
    IN  IF c.shape = BIN_ONLY_SHAPE THEN VopNext(c0, g, e, parse_only)
        ELSE LET q  == show_bits(g, c.quant_precision)
                 g1 == skip_bits(g, c.quant_precision)
                 c1 == [c0 EXCEPT !.qscale = q, !.chroma_qscale = q]
             IN  IF q < 0 THEN VopResult(c1, g1, AVERROR_INVALIDDATA, e)
                 ELSE LET f  == IF c.pict_type # AV_PICTURE_TYPE_I
                                THEN show_bits(g1, 3) ELSE 1
                          g2 == IF c.pict_type # AV_PICTURE_TYPE_I
                                THEN skip_bits(g1, 3) ELSE g1
                      IN  IF f = 0 THEN VopResult(c1, g2, AVERROR_INVALIDDATA, e)
                          ELSE LET c2 == [c1 EXCEPT !.f_code = f]
                                   b  == IF c.pict_type = AV_PICTURE_TYPE_B
                                         THEN show_bits(g2, 3) ELSE 1
                                   g3 == IF c.pict_type = AV_PICTURE_TYPE_B
                                         THEN skip_bits(g2, 3) ELSE g2
                               IN  IF b = 0
                                   THEN VopResult(c2, g3, AVERROR_INVALIDDATA, e)
                                   ELSE VopNext([c2 EXCEPT !.b_code = b], g3, e, parse_only)

\* qscale, f_code, b_code (lines 3398-3426)
VopQuant(r) ==
    IF r.done \/ r.to_end THEN r ELSE
    LET c == r.ctx
        g == r.gb
        e == r.ev
        parse_only == r.parse_only
    IN
    LET c0 == [c EXCEPT !.f_code = 1, !.b_code = 1]
    IN  IF c.shape = BIN_ONLY_SHAPE THEN VopNext(c0, g, e, parse_only)
        ELSE LET q  == show_bits(g, c.quant_precision)
                 g1 == skip_bits(g, c.quant_precision)
                 c1 == [c0 EXCEPT !.qscale = q, !.chroma_qscale = q]
             IN  IF q = 0 THEN VopResult(c1, g1, AVERROR_INVALIDDATA, e)
                 ELSE LET f  == IF c.pict_type # AV_PICTURE_TYPE_I
                                THEN show_bits(g1, 3) ELSE 1
                          g2 == IF c.pict_type # AV_PICTURE_TYPE_I
                                THEN skip_bits(g1, 3) ELSE g1
                      IN  IF f = 0 THEN VopResult(c1, g2, AVERROR_INVALIDDATA, e)
                          ELSE LET c2 == [c1 EXCEPT !.f_code = f]
                                   b  == IF c.pict_type = AV_PICTURE_TYPE_B
                                         THEN show_bits(g2, 3) ELSE 1
                                   g3 == IF c.pict_type = AV_PICTURE_TYPE_B
                                         THEN skip_bits(g2, 3) ELSE g2
                               IN  IF b = 0
                                   THEN VopResult(c2, g3, AVERROR_INVALIDDATA, e)
                                   ELSE VopNext([c2 EXCEPT !.b_code = b], g3, e, parse_only)

\* variant: the result of the sprite trajectory is ignored
VopSpriteFails_Never(sprite_ret) == FALSE

\* what the VOP header does with the result of the sprite trajectory (line 3385)
VopSpriteFails(sprite_ret) == sprite_ret < 0

\* after the call of mpeg4_decode_sprite_trajectory (lines 3385-3386), sp
\* being what it returned
VopSpriteDecoded(e, parse_only, sp) ==
    LET e1 == [e EXCEPT !.sprite_called = TRUE, !.sprite_ret = sp.ret,
                        !.sprite_guard = sp.guard,
                        !.offset64 = sp.offset64,
                        !.delta64 = sp.delta64]
    IN  IF VopSpriteFails(sp.ret)
        THEN VopResult(sp.ctx, sp.gb, AVERROR_INVALIDDATA, e1)
        ELSE VopNext(sp.ctx, sp.gb, [e1 EXCEPT !.sprite_passed = TRUE], parse_only)

\* the scan tables and the sprite trajectory (lines 3370-3396)
VopSprite(r) ==
    IF r.done \/ r.to_end THEN r ELSE
    LET c == r.ctx
        g == r.gb
        e == r.ev
        parse_only == r.parse_only
    IN
    LET c1 == [c EXCEPT !.intra_scantable =
                   IF c.alternate_scan # 0 THEN "alternate_vertical" ELSE "zigzag"]
    IN  IF c1.pict_type # AV_PICTURE_TYPE_S THEN VopNext(c1, g, e, parse_only)
        ELSE IF c1.vol_sprite_usage \in {STATIC_SPRITE, GMC_SPRITE}
             THEN VopSpriteDecoded(e, parse_only, mpeg4_decode_sprite_trajectory(c1, g))
             ELSE VopNext([c1 EXCEPT !.sprite_offset = Zero2, !.sprite_delta = Zero2],
                          g, e, parse_only)

\* rounding, shape, complexity estimation, dc threshold (lines 3314-3368)
VopFlags(r) ==
    IF r.done \/ r.to_end THEN r ELSE
    LET c == r.ctx
        g == r.gb
        e == r.ev
        parse_only == r.parse_only
    IN
    LET g1 == IF c.new_pred = 1 THEN decode_new_pred(c, g) ELSE g
        rd == c.shape # BIN_ONLY_SHAPE
              /\ (c.pict_type = AV_PICTURE_TYPE_P
                  \/ (c.pict_type = AV_PICTURE_TYPE_S /\ c.vol_sprite_usage = GMC_SPRITE))
        c1 == [c EXCEPT !.no_rounding = IF rd THEN show_bits(g1, 1) ELSE 0]
        g2 == IF rd THEN skip_bits(g1, 1) ELSE g1
        g3 == IF c.shape # RECT_SHAPE
              THEN LET h1 == IF c.vol_sprite_usage # 1 \/ c.pict_type # AV_PICTURE_TYPE_I
                             THEN skip_bits(g2, 13 + 1 + 13 + 1 + 13 + 1 + 13) ELSE g2
                       h2 == skip_bits(h1, 1)
                   IN  IF show_bits(h2, 1) # 0 THEN skip_bits(h2, 1 + 8)
                       ELSE skip_bits(h2, 1)
              ELSE g2
    IN  IF c.shape = BIN_ONLY_SHAPE
        THEN (IF parse_only THEN VopToEnd(c1, g3, e, parse_only)
              ELSE VopNext(c1, g3, e, parse_only))
        ELSE LET g4 == skip_bits(g3, c.cplx_estimation_trash_i
                          + (IF c.pict_type # AV_PICTURE_TYPE_I
                             THEN c.cplx_estimation_trash_p ELSE 0)
                          + (IF c.pict_type = AV_PICTURE_TYPE_B
                             THEN c.cplx_estimation_trash_b ELSE 0))
             IN  IF get_bits_left(g4) < 3
                 THEN VopResult(c1, g4, AVERROR_INVALIDDATA, e)
                 ELSE LET c2 == [c1 EXCEPT !.intra_dc_threshold =
                                     ff_mpeg4_dc_threshold[show_bits(g4, 3) + 1]]
                          g5 == skip_bits(g4, 3)
                          c3 == IF c2.progressive_sequence = 0
                                THEN [c2 EXCEPT !.top_field_first = show_bits(g5, 1),
                                                !.alternate_scan =
                                                    show_bits(skip_bits(g5, 1), 1)]
                                ELSE [c2 EXCEPT !.alternate_scan = 0]
                          g6 == IF c2.progressive_sequence = 0 THEN skip_bits(g5, 2)
                                ELSE g5
                      IN  IF parse_only THEN VopToEnd(c3, g6, e, parse_only)
                          ELSE VopNext(c3, g6, e, parse_only)

\* the presentation time stamp and vop_coded (lines 3299-3313)
\* variant: the header is read on after a vop_coded bit of 0
VopCoded_ReadsOn(r) ==
    IF r.done \/ r.to_end THEN r ELSE
    LET c == r.ctx
        g == r.gb
        e == r.ev
        parse_only == r.parse_only
    IN
    LET e1 == [e EXCEPT !.pts_computed = TRUE]
        g1 == skip_bits(g, 1)
        vc == show_bits(g1, 1)
        e2 == [e1 EXCEPT !.vop_coded = vc]
    IN  IF vc # 1
        THEN VopNext([c EXCEPT !.skipped_last_frame = 1], skip_bits(g1, 1), e2,
                     parse_only)
        ELSE VopNext(c, skip_bits(g1, 1), e2, parse_only)

\* vop_coded (lines 3305-3313)
VopCoded(r) ==
    IF r.done \/ r.to_end THEN r ELSE
    LET c == r.ctx
        g == r.gb
        e == r.ev
        parse_only == r.parse_only
    IN
    LET e1 == [e EXCEPT !.pts_computed = TRUE]
        g1 == skip_bits(g, 1)                             \* check_marker
        vc == show_bits(g1, 1)
        e2 == [e1 EXCEPT !.vop_coded = vc]
    IN  IF vc # 1
        THEN VopResult([c EXCEPT !.skipped_last_frame = 1], skip_bits(g1, 1),
                       FRAME_SKIPPED, e2)
        ELSE VopNext(c, skip_bits(g1, 1), e2, parse_only)

\* variant: equal distances are let through
VopBTimeInvalid_Strict(pp_time, pb_time) ==
    pp_time < pb_time \/ pp_time <= pp_time - pb_time \/ pp_time <= 0

\* the test that skips a B-VOP for its timing (lines 3275-3277)
VopBTimeInvalid(pp_time, pb_time) ==
    pp_time <= pb_time \/ pp_time <= pp_time - pb_time \/ pp_time <= 0

\* variant: the distance to the previous VOP is not stored
VopNonBTime_KeepDistance(c, e) ==
    LET t == (c.time_base + e.time_incr) * c.framerate_num + e.time_increment
    IN  [c EXCEPT !.last_time_base = c.time_base,
                  !.time_base = c.time_base + e.time_incr,
                  !.time = t, !.last_non_b_time = t]

\* the time of a VOP that is no B-VOP (lines 3259-3271)
VopNonBTime(c, e) ==
    LET c1 == [c EXCEPT !.last_time_base = c.time_base,
                        !.time_base = c.time_base + e.time_incr]
        t1 == c1.time_base * c.framerate_num + e.time_increment
        fx == "UMP4" \in c.workaround_bugs /\ t1 < c.last_non_b_time
        c2 == IF fx THEN [c1 EXCEPT !.time_base = @ + 1] ELSE c1
        t2 == IF fx THEN t1 + c.framerate_num ELSE t1
    IN  [c2 EXCEPT !.time = t2,
                   !.pp_time = t2 - c.last_non_b_time,
                   !.last_non_b_time = t2]

\* the time of the VOP (lines 3258-3297)
VopTime(r) ==
    IF r.done \/ r.to_end THEN r ELSE
    LET c == r.ctx
        g == r.gb
        e == r.ev
        parse_only == r.parse_only
    IN
    IF c.pict_type # AV_PICTURE_TYPE_B
    THEN VopNext(VopNonBTime(c, e), g, e, parse_only)
    ELSE LET t  == (c.last_time_base + e.time_incr) * c.framerate_num + e.time_increment
             c1 == [c EXCEPT !.time = t,
                             !.pb_time = c.pp_time - (c.last_non_b_time - t)]
         IN  IF VopBTimeInvalid(c1.pp_time, c1.pb_time)
             THEN VopResult(c1, g, FRAME_SKIPPED, e)
             ELSE LET e1 == [e EXCEPT !.direct_mv_init = TRUE]
                      tf == IF c1.t_frame = 0
                            THEN (IF c1.pb_time = 0 THEN 1 ELSE c1.pb_time)
                            ELSE c1.t_frame
                      ppf == (ROUNDED_DIV(c1.last_non_b_time, tf)
                              - ROUNDED_DIV(c1.last_non_b_time - c1.pp_time, tf)) * 2
                      pbf == (ROUNDED_DIV(c1.time, tf)
                              - ROUNDED_DIV(c1.last_non_b_time - c1.pp_time, tf)) * 2
                      bad == ppf <= pbf \/ pbf <= 1
                      c2 == [c1 EXCEPT !.t_frame = tf,
                                       !.pp_field_time = IF bad THEN 4 ELSE ppf,
                                       !.pb_field_time = IF bad THEN 2 ELSE pbf]
                  IN  IF bad /\ c2.progressive_sequence = 0
                      THEN VopResult(c2, g, FRAME_SKIPPED, e1)
                      ELSE VopNext(c2, g, e1, parse_only)

\* picture type and time increment (lines 3212-3256)
VopStart(c, g, parse_only) ==
    LET pt == show_bits(g, 2) + AV_PICTURE_TYPE_I
        c1 == [c EXCEPT !.mcsel = 0, !.pict_type = pt,
                        !.low_delay =
                            IF pt = AV_PICTURE_TYPE_B /\ c.low_delay # 0
                               /\ c.vol_control_parameters = 0 /\ ~c.flag_low_delay
                            THEN 0 ELSE @]
        pf == IF c.data_partitioning # 0 /\ pt # AV_PICTURE_TYPE_B THEN 1 ELSE 0
        c2 == [c1 EXCEPT !.partitioned_frame = pf,
                         !.decode_mb = IF pf = 1 THEN "mpeg4_decode_partitioned_mb"
                                       ELSE "mpeg4_decode_mb"]
        g1 == skip_bits(g, 2)
        time_incr == CountOnes(g1.buf, g1.index, Len(g1.buf) + 1)
        g2 == skip_bits(g1, time_incr + 1 + 1)       \* the 0 bit and check_marker
        healed == TimeIncrementBitsInvalid(c2, g2)
        c3 == IF healed
              THEN [c2 EXCEPT !.time_increment_bits = TimeIncrementBitsScan(c2, g2, 1)]
              ELSE c2
        e  == [VopEv0 EXCEPT !.healed = healed,
                             !.tib_before = c.time_increment_bits,
                             !.time_incr = time_incr,
                             !.time_increment = show_bits(g2, c3.time_increment_bits),
                             !.time_increment_width = c3.time_increment_bits]
    IN  VopNext(c3, skip_bits(g2, c3.time_increment_bits), e, parse_only)

\* decode_vop_header (lines 3205-3483): the parts of the header in the order
\* of the code, each entered unless an earlier one has returned or gone to end
decode_vop_header(c, g, parse_only) ==
    VopEnd(VopTail(VopQuant(VopSprite(VopFlags(VopCoded(VopTime(
        VopStart(c, g, parse_only))))))))

(***************************************************************************)
(* The decoder context after decode_init (lines 3985-4035) on a zeroed     *)
(* context; the fields set by the generic initialisation (picture size in  *)
(* macroblocks, idct permutation) are given by the caller.                 *)
(***************************************************************************)
Zero64 == [j \in 0..63 |-> 0]

\* block_wrap[n] of the window of dc_val the model keeps
DcWrap == 4

PermNone == [i \in 0..63 |-> i]

PermTranspose == [i \in 0..63 |-> (i \div 8) + 8 * (i % 8)]

PermLibmpeg2 ==
    [i \in 0..63 |-> 8 * (i \div 8) + ((i % 8) \div 2) + 4 * (i % 2)]

CtxInit ==
    [divx_version |-> -1, divx_build |-> -1, xvid_build |-> -1, lavc_build |-> -1,
     low_delay |-> 0, decode_mb |-> "mpeg4_decode_mb",
     time_increment_bits |-> 4, quant_precision |-> 5,
     vo_type |-> 0, studio_profile |-> 0, vol_control_parameters |-> 0,
     picture_number |-> 0, shape |-> RECT_SHAPE,
     framerate_num |-> 0, framerate_den |-> 1, t_frame |-> 0,
     width |-> 0, height |-> 0, codec_tag_MP4S |-> FALSE, context_reinit |-> 0,
     progressive_sequence |-> 1, progressive_frame |-> 1, interlaced_dct |-> 0,
     vol_sprite_usage |-> 0, num_sprite_warping_points |-> 0,
     sprite_warping_accuracy |-> 0, sprite_brightness_change |-> 0,
     mpeg_quant |-> 0, intra_matrix |-> Zero64, chroma_intra_matrix |-> Zero64,
     inter_matrix |-> Zero64, chroma_inter_matrix |-> Zero64,
     idct_permutation |-> PermNone,
     quarter_sample |-> 0, cplx_estimation_trash_i |-> 0,
     cplx_estimation_trash_p |-> 0, cplx_estimation_trash_b |-> 0,
     resync_marker |-> 0, data_partitioning |-> 0, rvlc |-> 0, new_pred |-> 0,
     scalability |-> 0, enhancement_type |-> 0,
     mcsel |-> 0, pict_type |-> 0, flag_low_delay |-> FALSE, partitioned_frame |-> 0,
     time_base |-> 0, last_time_base |-> 0, time |-> 0, workaround_bugs |-> {},
     last_non_b_time |-> 0, pp_time |-> 0, pb_time |-> 0,
     pp_field_time |-> 0, pb_field_time |-> 0, skipped_last_frame |-> 0,
     no_rounding |-> 0, intra_dc_threshold |-> 0, top_field_first |-> 0,
     alternate_scan |-> 0, intra_scantable |-> "zigzag",
     f_code |-> 0, b_code |-> 0, qscale |-> 0, chroma_qscale |-> 0,
     h_edge_pos |-> 0, v_edge_pos |-> 0,
     dct_unquantize_intra |-> "h263_intra", dct_unquantize_inter |-> "NULL",
     sprite_traj |-> [i \in 0..3 |-> [j \in 0..1 |-> 0]],
     sprite_shift |-> <<0, 0>>, sprite_offset |-> Zero2, sprite_delta |-> Zero2,
     real_sprite_warping_points |-> 0,
     mb_x |-> 0, mb_y |-> 0, mb_width |-> 0, mb_height |-> 0, mb_num |-> 0,
     resync_mb_x |-> 0, resync_mb_y |-> 0, first_slice_line |-> 0,
     block_wrap |-> DcWrap,
     dc_val |-> [k \in {-1 - DcWrap, -DcWrap, -1, 0} |-> 1024]]

NoEv == [none |-> TRUE]

Reader(buf) == [buf |-> buf, index |-> 0]

(***************************************************************************)
(* SpecPredDC: mpeg4_pred_dc applied to every block index, slice position  *)
(* and neighbourhood of stored DC values.                                  *)
(***************************************************************************)
DcVals == {1000, 1024, 1048}

MaxMbX == 1

InitPredDC ==
    /\ \E fsl \in 0..1, mx \in 0..MaxMbX, rx \in 0..MaxMbX, my \in 0..1,
          va \in DcVals, vb \in DcVals, vc \in DcVals :
          ctx = [CtxInit EXCEPT !.first_slice_line = fsl, !.mb_x = mx, !.mb_y = my,
                                !.resync_mb_x = rx, !.resync_mb_y = 0,
                                !.mb_width = MaxMbX + 1, !.mb_height = 2,
                                !.mb_num = 2 * (MaxMbX + 1),
                                !.dc_val = [k \in {-1 - DcWrap, -DcWrap, -1, 0} |->
                                              CASE k = -1 -> va
                                                [] k = -1 - DcWrap -> vb
                                                [] k = -DcWrap -> vc
                                                [] OTHER -> 1024]]
    /\ gb = Reader(<<>>)
    /\ ret = 0
    /\ pc = "init"
    /\ ev = NoEv
    /\ calls = 0

PredDc ==
    /\ pc = "init"
    /\ \E n \in 0..5 :
          \E r \in {mpeg4_pred_dc(ctx, n, ctx.dc_val, ctx.block_wrap)} :
              /\ ret' = r.pred
              /\ ev' = [n |-> n, dir |-> r.dir, a |-> r.a, b |-> r.b, c |-> r.c]
    /\ pc' = "mpeg4_pred_dc"
    /\ UNCHANGED <<ctx, gb, calls>>

NextPredDC == PredDc

SpecPredDC == InitPredDC /\ [][NextPredDC]_vars

\* C8 as stated: when the two gradients are equal, the top neighbour c is the
\* prediction and the direction is top.
C8_TieTakesTop ==
    (pc = "mpeg4_pred_dc" /\ Abs(ev.a - ev.b) = Abs(ev.b - ev.c))
        => (ret = ev.c /\ ev.dir = 1)

\* C8 amended: when the two gradients are equal, the left neighbour a is the
\* prediction and the direction is left (0); top is taken only for
\* |a - b| < |b - c|.
C8_TieTakesLeft ==
    pc = "mpeg4_pred_dc" =>
        /\ Abs(ev.a - ev.b) = Abs(ev.b - ev.c) => (ret = ev.a /\ ev.dir = 0)
        /\ ev.dir = 1 <=> Abs(ev.a - ev.b) < Abs(ev.b - ev.c)

C8_Witness ==
    /\ pc = "mpeg4_pred_dc"
    /\ Abs(ev.a - ev.b) = Abs(ev.b - ev.c)
    /\ ev.a # ev.c
    /\ ret = ev.a

MbWidth == 3

MbHeight == 2

PacketZeros == {14, 15, 16, 17, 18, 19, 32}

\* a resync prefix of k zero bits and a one bit, the macroblock number in tw
\* bits (after the shape's extension bit x), the quantiser and the extension flag
PacketStream(k, x, mbn, tw, q, he) ==
    Rep(0, k) \o (IF k < 32 THEN <<1>> ELSE <<>>) \o x \o Bits(mbn, tw) \o Bits(q, 5)
        \o <<he>> \o <<1, 0, 1>> \o Bits(9, 4) \o <<1>> \o Bits(0, 5)
        \o <<0, 0>> \o <<0, 0>> \o Bits(5, 6) \o Rep(0, 8)

PacketStreams ==
    { PacketStream(k, x, mbn, av_log2(MbWidth * MbHeight - 1) + 1, q, he) :
          k \in PacketZeros, x \in {<<>>, <<1>>},
          mbn \in {0, 4, MbWidth * MbHeight - 1, MbWidth * MbHeight + 1}, q \in {0, 9}, he \in 0..1 }
    \cup { Rep(0, 16) \o <<1>> }

InitPacket ==
    /\ \E pt \in {AV_PICTURE_TYPE_I, AV_PICTURE_TYPE_P, AV_PICTURE_TYPE_B, AV_PICTURE_TYPE_S},
          fc \in 1..2, bc \in {1, 3}, sh \in {RECT_SHAPE, BIN_SHAPE, BIN_ONLY_SHAPE},
          np \in 0..1 :
          ctx = [CtxInit EXCEPT !.pict_type = pt, !.f_code = fc, !.b_code = bc,
                                !.shape = sh, !.new_pred = np,
                                !.vol_sprite_usage = GMC_SPRITE,
                                !.num_sprite_warping_points = 1,
                                !.width = 16 * MbWidth, !.height = 16 * MbHeight,
                                !.mb_width = MbWidth, !.mb_height = MbHeight,
                                !.mb_num = MbWidth * MbHeight,
                                !.mb_x = 1, !.mb_y = 0, !.qscale = 3, !.chroma_qscale = 3]
    /\ gb = Reader(<<>>)
    /\ ret = 0
    /\ pc = "init"
    /\ ev = NoEv
    /\ calls = 0

VideoPacketHeader ==
    /\ pc = "init"
    /\ \E b \in PacketStreams :
          \E r \in {ff_mpeg4_decode_video_packet_header(ctx, Reader(b))} :
              /\ ctx' = r.ctx
              /\ gb' = r.gb
              /\ ret' = r.ret
              /\ ev' = [len |-> r.len, mb_x |-> ctx.mb_x, mb_y |-> ctx.mb_y,
                        qscale |-> ctx.qscale, chroma_qscale |-> ctx.chroma_qscale]
    /\ pc' = "video_packet_header"
    /\ UNCHANGED calls

NextPacket == VideoPacketHeader

SpecPacket == InitPacket /\ [][NextPacket]_vars

\* the zero bits at the head of the packet, counted up to 32
PacketLeadingZeros == CountZeros(gb.buf, 0, 32)

\* C1: a packet whose run of leading zero bits (counted up to 32) differs from
\* the prefix length of the picture type and f_code/b_code is refused with
\* AVERROR_INVALIDDATA, and mb_x, mb_y and qscale keep their values.
C1_PrefixMismatchRejected ==
    (pc = "video_packet_header"
     /\ PacketLeadingZeros #
            ff_mpeg4_get_video_packet_prefix_length(ctx.pict_type, ctx.f_code, ctx.b_code))
        => /\ ret = AVERROR_INVALIDDATA
           /\ ctx.mb_x = ev.mb_x /\ ctx.mb_y = ev.mb_y
           /\ ctx.qscale = ev.qscale /\ ctx.chroma_qscale = ev.chroma_qscale

\* a prefix one bit too long, in front of fields that would have been accepted
C1_Witness ==
    /\ pc = "video_packet_header"
    /\ ev.len = 1 + ff_mpeg4_get_video_packet_prefix_length(ctx.pict_type, ctx.f_code, ctx.b_code)
    /\ ctx.shape = RECT_SHAPE
    /\ BitsValue(gb.buf, ev.len + 1, 3) = 4
    /\ BitsValue(gb.buf, ev.len + 4, 5) = 9
    /\ ret = AVERROR_INVALIDDATA
    /\ ctx.mb_x = 1 /\ ctx.qscale = 3

(***************************************************************************)
(* SpecSprite: mpeg4_decode_sprite_trajectory on encoded warping points,   *)
(* for every number of points, accuracy and the divx 500b413 layout.       *)
(***************************************************************************)
BitLen(x) == IF x = 0 THEN 0 ELSE av_log2(x) + 1

\* one component as the bitstream carries it: the VLC of its length, then the
\* value in get_xbits form
SpriteTrajComponentBits(v) ==
    LET n == BitLen(Abs(v))
    IN  Bits(sprite_trajectory[n], ff_sprite_trajectory_lens[n + 1])
        \o (IF n = 0 THEN <<>> ELSE Bits(IF v > 0 THEN v ELSE v + Pow2(n) - 1, n))

\* the warping points pts (a sequence of <<x, y>>) with their marker bits
RECURSIVE SpriteTrajBits(_, _)
SpriteTrajBits(divx, pts) ==
    IF pts = <<>> THEN <<>>
    ELSE SpriteTrajComponentBits(pts[1][1]) \o (IF divx THEN <<>> ELSE <<1>>)
         \o SpriteTrajComponentBits(pts[1][2]) \o <<1>>
         \o SpriteTrajBits(divx, Tail(pts))

SpriteFirstValues == {0, 3, -5, 4096, 16383}

SpriteSecondPoints == {<<0, 0>>, <<16383, 0>>, <<-7, 2>>}

SpriteThirdPoints == {<<0, 0>>, <<1, -1>>, <<0, 16383>>}

SpritePointLists(n) ==
    { SubSeq(<<<<x, y>>, p2, p3>>, 1, n) :
          x \in SpriteFirstValues, y \in SpriteFirstValues,
          p2 \in SpriteSecondPoints, p3 \in SpriteThirdPoints }

\* the sprite state a frame with one warping point (3, -5) leaves behind
SpriteLeftBehind ==
    mpeg4_decode_sprite_trajectory(
        [CtxInit EXCEPT !.width = 16, !.height = 16, !.num_sprite_warping_points = 1],
        Reader(SpriteTrajBits(FALSE, <<<<3, -5>>>>))).ctx

InitSprite ==
    /\ \E n \in 0..3, acc \in 0..3, divx \in BOOLEAN, prior \in BOOLEAN,
          wh \in {<<16, 16>>, <<24, 16>>, <<0, 16>>} :
          LET c0 == IF prior THEN SpriteLeftBehind ELSE CtxInit
          IN  ctx = [c0 EXCEPT !.num_sprite_warping_points = n,
                               !.sprite_warping_accuracy = acc,
                               !.vol_sprite_usage = GMC_SPRITE,
                               !.pict_type = AV_PICTURE_TYPE_S,
                               !.divx_version = IF divx THEN 500 ELSE -1,
                               !.divx_build = IF divx THEN 413 ELSE -1,
                               !.width = wh[1], !.height = wh[2]]
    /\ gb = Reader(<<>>)
    /\ ret = 0
    /\ pc = "init"
    /\ ev = NoEv
    /\ calls = 0

SpriteTrajectory ==
    /\ pc = "init"
    /\ \E pts \in SpritePointLists(ctx.num_sprite_warping_points), coded \in BOOLEAN :
          LET b == IF coded THEN SpriteTrajBits(IsDivx500b413(ctx), pts)
                   ELSE Rep(1, 30 + Len(pts))
          IN  \E r \in {mpeg4_decode_sprite_trajectory(ctx, Reader(b))} :
              /\ ctx' = r.ctx
              /\ gb' = r.gb
              /\ ret' = r.ret
              /\ ev' = [guard |-> r.guard, offset64 |-> r.offset64,
                        delta64 |-> r.delta64, pts |-> pts, coded |-> coded,
                        sprite_offset |-> ctx.sprite_offset]
    /\ pc' = "sprite_trajectory"
    /\ UNCHANGED calls

NextSprite == SpriteTrajectory

SpecSprite == InitSprite /\ [][NextSprite]_vars

\* C2: when either overflow guard of mpeg4_decode_sprite_trajectory is hit, the
\* return value is negative and every entry of sprite_offset and sprite_delta
\* is 0; and whenever values are stored, each 64-bit value lies in the int
\* range, so the stored int is the computed value.
C2_SpriteOverflowZeroes ==
    pc = "sprite_trajectory" =>
        /\ ev.guard \in {"shift", "points"} =>
               (ret < 0 /\ ctx.sprite_offset = Zero2 /\ ctx.sprite_delta = Zero2)
        /\ ret < 0 => (ev.guard \in {"shift", "points"} \/ ctx.width <= 0)
        /\ ret >= 0 =>
               \A k \in 0..1, i \in 0..1 :
                   /\ WFitsInt(ev.offset64[k][i]) /\ WFitsInt(ev.delta64[k][i])
                   /\ W(ctx.sprite_offset[k][i]) = ev.offset64[k][i]
                   /\ W(ctx.sprite_delta[k][i]) = ev.delta64[k][i]

\* the second guard fires on a frame that inherited nonzero sprite offsets
C2_Witness ==
    /\ pc = "sprite_trajectory"
    /\ ev.guard = "points"
    /\ ev.sprite_offset # Zero2
    /\ ret = AVERROR_PATCHWELCOME
    /\ ctx.sprite_offset = Zero2 /\ ctx.sprite_delta = Zero2

\* the displacement (dx, dy) of a single coded warping point
SpriteSinglePoint ==
    /\ pc = "sprite_trajectory"
    /\ ctx.num_sprite_warping_points = 1
    /\ ctx.sprite_warping_accuracy = 0
    /\ ~IsDivx500b413(ctx)
    /\ ev.coded
    /\ ret = 0

\* C10 as stated: with one warping point and accuracy 0 (a = 2), outside the
\* divx 500/413 case, sprite_offset[0][0] = dx*a - a*vop_ref[0][0] and
\* sprite_offset[0][1] = dy*a - a*vop_ref[0][1], vop_ref[0] being (0, 0).
C10_OffsetIsScaledDisplacement ==
    SpriteSinglePoint =>
        LET a == 2 * Pow2(ctx.sprite_warping_accuracy)
        IN  /\ ctx.sprite_offset[0][0] = ev.pts[1][1] * a - a * 0
            /\ ctx.sprite_offset[0][1] = ev.pts[1][2] * a - a * 0

\* C10 amended: there sprite_ref[0] = (a >> 1) * (2 * vop_ref[0] + d), so
\* sprite_offset[0][0] = dx * (a >> 1) - a * vop_ref[0][0] = dx and
\* sprite_offset[0][1] = dy.
C10_OffsetIsDisplacement ==
    SpriteSinglePoint =>
        LET a == 2 * Pow2(ctx.sprite_warping_accuracy)
        IN  /\ ctx.sprite_offset[0][0] = ev.pts[1][1] * (a \div 2) - a * 0
            /\ ctx.sprite_offset[0][1] = ev.pts[1][2] * (a \div 2) - a * 0

C10_Witness ==
    /\ SpriteSinglePoint
    /\ ev.pts = <<<<3, -5>>>>
    /\ ctx.sprite_offset[0][0] = 3
    /\ ctx.sprite_offset[0][1] = -5

\* the warping points the call stored in sprite_traj
SpriteTrajStoredPoints ==
    [i \in 1..ctx.num_sprite_warping_points |->
        <<ctx.sprite_traj[i - 1][0], ctx.sprite_traj[i - 1][1]>>]

\* the deltas and shifts the switch computes from them
SpriteSwitchValues == SpriteSwitch(ctx, SpriteGeometry(ctx, SpriteTrajStoredPoints))

\* the deltas of the switch are a pure scaling by a << sprite_shift[0]
SpriteDeltasPureScaling ==
    LET a   == 2 * Pow2(ctx.sprite_warping_accuracy)
        raw == SpriteSwitchValues
    IN  /\ raw.delta[0][0] = a * Pow2(raw.shift[1])
        /\ raw.delta[1][1] = a * Pow2(raw.shift[1])
        /\ raw.delta[0][1] = 0
        /\ raw.delta[1][0] = 0

\* C11: after a successful mpeg4_decode_sprite_trajectory,
\* real_sprite_warping_points is 1 exactly when the deltas of the switch are a
\* pure scaling, and then sprite_shift is {0, 0} and sprite_delta {{a, 0}, {0, a}};
\* otherwise real_sprite_warping_points is num_sprite_warping_points and both
\* shifts are 16.  With 0 or 1 warping points it is always 1.
C11_PureScalingCollapses ==
    (pc = "sprite_trajectory" /\ ret = 0) =>
        LET a == 2 * Pow2(ctx.sprite_warping_accuracy)
        IN  /\ (ctx.real_sprite_warping_points = 1) <=> SpriteDeltasPureScaling
            /\ SpriteDeltasPureScaling =>
                   /\ ctx.sprite_shift = <<0, 0>>
                   /\ ctx.sprite_delta = Arr2(a, 0, 0, a)
            /\ ~SpriteDeltasPureScaling =>
                   /\ ctx.real_sprite_warping_points = ctx.num_sprite_warping_points
                   /\ ctx.sprite_shift = <<16, 16>>
            /\ ctx.num_sprite_warping_points \in {0, 1} =>
                   ctx.real_sprite_warping_points = 1

\* two warping points that leave a pure scaling with a nonzero shift
C11_Witness ==
    /\ pc = "sprite_trajectory"
    /\ ret = 0
    /\ ctx.num_sprite_warping_points = 2
    /\ SpriteDeltasPureScaling
    /\ SpriteSwitchValues.shift # <<0, 0>>
    /\ ctx.real_sprite_warping_points = 1
    /\ ctx.sprite_shift = <<0, 0>>

(***************************************************************************)
(* Spec: the decoder after decode_init, fed VOL and VOP headers in any     *)
(* order (ff_mpeg4_parse_picture_header calls decode_vol_header and        *)
(* decode_vop_header on the start codes it meets).                         *)
(***************************************************************************)
MaxCalls == 2

ByteBits(vs) ==
    [n \in 1..(8 * Len(vs)) |->
        (vs[((n - 1) \div 8) + 1] \div Pow2(7 - ((n - 1) % 8))) % 2]

\* a custom matrix as the VOL header carries it: the load flag and, if it is
\* set, the values and, unless there are 64 of them, the zero byte
QuantMatrixBits(m) ==
    IF m.load = 0 THEN <<0>>
    ELSE <<1>> \o ByteBits(m.vs) \o (IF Len(m.vs) < 64 THEN Bits(0, 8) ELSE <<>>)

NoMatrix == [load |-> 0, vs |-> <<>>]

Matrix(vs) == [load |-> 1, vs |-> vs]

\* the complexity estimation header of method 0 with one flag of the first
\* group set, the other groups absent, and both markers
CplxBits == <<0, 0>> \o <<0, 0, 0, 1, 0, 0, 0>> \o <<1>> \o <<1>> \o <<1>> \o <<1>> \o <<1>>

\* a VOL header (after its start code) of object type 1, up to the
\* complexity estimation disable bit
VolBitsBeforeCplx(p) ==
    <<0>> \o Bits(SIMPLE_VO_TYPE, 8)
    \o (IF p.ver = 1 THEN <<0>> ELSE <<1>> \o Bits(p.ver, 4) \o Bits(1, 3))
    \o Bits(1, 4) \o <<0>> \o Bits(RECT_SHAPE, 2)
    \o <<1>> \o Bits(p.tres, 16) \o <<1>> \o <<0>>
    \o <<1>> \o Bits(p.w, 13) \o <<1>> \o Bits(p.h, 13) \o <<1>>
    \o <<0, 1>>
    \o (IF p.ver = 1 THEN <<0>>
        ELSE Bits(p.sprite, 2)
             \o (IF p.sprite = STATIC_SPRITE THEN Rep(1, 4 * 14) ELSE <<>>)
             \o (IF p.sprite \in {STATIC_SPRITE, GMC_SPRITE}
                 THEN Bits(p.np, 6) \o Bits(p.acc, 2) \o <<0>> ELSE <<>>)
             \o (IF p.sprite = STATIC_SPRITE THEN <<0>> ELSE <<>>))
    \o <<0>>
    \o (IF p.mq = 1 THEN <<1>> \o QuantMatrixBits(p.intra) \o QuantMatrixBits(p.inter)
        ELSE <<0>>)
    \o (IF p.ver = 1 THEN <<>> ELSE <<0>>)

\* a VOL header (after its start code) of object type 1
VolBits(p) ==
    VolBitsBeforeCplx(p)
    \o (IF p.cplx = 1 THEN <<0>> \o p.cplxbits ELSE <<1>>)
    \o <<1 - p.resync>> \o (IF p.dp = 1 THEN <<1, 0>> ELSE <<0>>)
    \o (IF p.ver = 1 THEN <<>> ELSE <<0, 0>>)
    \o <<0>> \o <<1, 0, 0, 0, 0, 0, 0, 0>>

VolParams(ver, tres, sprite, np, acc) ==
    [ver |-> ver, tres |-> tres, w |-> 16, h |-> 16, sprite |-> sprite, np |-> np,
     acc |-> acc, mq |-> 0, intra |-> NoMatrix, inter |-> NoMatrix, cplx |-> 0,
     cplxbits |-> CplxBits, resync |-> 0, dp |-> 0]

VolStreams ==
    { VolBits(VolParams(2, 16, GMC_SPRITE, 1, 0)),
      VolBits(VolParams(2, 16, GMC_SPRITE, 2, 3)),
      VolBits(VolParams(2, 4, GMC_SPRITE, 2, 0)),
      VolBits(VolParams(2, 16, GMC_SPRITE, 5, 0)),
      VolBits([VolParams(1, 30, 0, 0, 0) EXCEPT !.mq = 1, !.intra = Matrix(<<9, 7>>),
                                                !.resync = 1, !.dp = 1]),
      VolBits([VolParams(1, 16, 0, 0, 0) EXCEPT !.cplx = 1]),
      SubSeq(VolBits(VolParams(1, 16, 0, 0, 0)), 1, 20) }

\* a VOP header (after its start code): type, modulo time base, the time
\* increment written with width w, vop_coded, then the fields of a rectangular
\* progressive VOP
VopBits(p) ==
    Bits(p.pt - AV_PICTURE_TYPE_I, 2) \o Rep(1, p.incr) \o <<0>> \o <<1>>
    \o Bits(p.ti, p.w) \o <<1>> \o <<p.coded>>
    \o (IF p.pt \in {AV_PICTURE_TYPE_P, AV_PICTURE_TYPE_S} THEN <<p.rnd>> ELSE <<>>)
    \o p.nonrect
    \o Bits(p.thr, 3)
    \o (IF p.pt = AV_PICTURE_TYPE_S THEN SpriteTrajBits(FALSE, p.pts) ELSE <<>>)
    \o Bits(p.q, 5)
    \o (IF p.pt # AV_PICTURE_TYPE_I THEN Bits(p.fc, 3) ELSE <<>>)
    \o (IF p.pt = AV_PICTURE_TYPE_B THEN Bits(p.bc, 3) ELSE <<>>)
    \o <<0, 0, 0, 0>>

VopParams(pt, incr, w, ti) ==
    [pt |-> pt, incr |-> incr, w |-> w, ti |-> ti, coded |-> 1, rnd |-> 0, thr |-> 0,
     pts |-> <<>>, q |-> 5, fc |-> 1, bc |-> 1, nonrect |-> <<>>]

\* the fields of a VOP header that is not rectangular: width, height and
\* the two spatial references with their markers, change_CR_disable, and no
\* constant alpha value
VopNonRectBits == Rep(1, 13 + 1 + 13 + 1 + 13 + 1 + 13) \o <<0, 0>>

VopStreams ==
    { VopBits(VopParams(pt, 0, w, ti)) :
          pt \in {AV_PICTURE_TYPE_I, AV_PICTURE_TYPE_P, AV_PICTURE_TYPE_B},
          w \in {2, 4}, ti \in {1, 3} }
    \cup { VopBits(VopParams(AV_PICTURE_TYPE_P, 1, 4, 2)),
           VopBits(VopParams(AV_PICTURE_TYPE_B, 1, 4, 2)),
           VopBits([VopParams(AV_PICTURE_TYPE_P, 0, 4, 9) EXCEPT !.coded = 0]),
           VopBits([VopParams(AV_PICTURE_TYPE_I, 0, 3, 0) EXCEPT !.thr = 5, !.q = 0]),
           VopBits([VopParams(AV_PICTURE_TYPE_P, 0, 1, 1) EXCEPT !.rnd = 1]),
           <<0, 0, 0, 1>> }
    \cup { VopBits([VopParams(AV_PICTURE_TYPE_S, 0, w, 1) EXCEPT !.pts = pts]) :
               w \in {2, 4},
               pts \in {<<<<3, -5>>>>, <<<<4096, 0>>, <<-7, 2>>>>,
                        <<<<0, 0>>, <<16383, 0>>>>, <<<<2, 1>>, <<-3, 0>>>>} }

\* the SequenceConfig fields of the context
SequenceConfig(c) ==
    [time_increment_bits |-> c.time_increment_bits, shape |-> c.shape,
     quant_precision |-> c.quant_precision, vol_sprite_usage |-> c.vol_sprite_usage,
     num_sprite_warping_points |-> c.num_sprite_warping_points,
     sprite_warping_accuracy |-> c.sprite_warping_accuracy,
     resync_marker |-> c.resync_marker, data_partitioning |-> c.data_partitioning,
     rvlc |-> c.rvlc]

Init ==
    /\ ctx = CtxInit
    /\ gb = Reader(<<>>)
    /\ ret = 0
    /\ pc = "decode_init"
    /\ ev = NoEv
    /\ calls = 0

\* the fields of the context a VOP header sets after vop_coded
FrameFields(c) ==
    [qscale |-> c.qscale, f_code |-> c.f_code, b_code |-> c.b_code,
     no_rounding |-> c.no_rounding, picture_number |-> c.picture_number]

DecodeVolHeader ==
    /\ calls < MaxCalls
    /\ \E b \in VolStreams :
          \E r \in {decode_vol_header(ctx, Reader(b))} :
              /\ ctx' = r.ctx
              /\ gb' = r.gb
              /\ ret' = r.ret
    /\ ev' = [before |-> SequenceConfig(ctx)]
    /\ pc' = "decode_vol_header"
    /\ calls' = calls + 1

DecodeVopHeader ==
    /\ calls < MaxCalls
    /\ \E b \in VopStreams :
          \E r \in {decode_vop_header(ctx, Reader(b), FALSE)} :
              /\ ctx' = r.ctx
              /\ gb' = r.gb
              /\ ret' = r.ret
              /\ ev' = [vop |-> r.ev, before |-> SequenceConfig(ctx),
                        sprite_offset |-> ctx.sprite_offset,
                        frame |-> FrameFields(ctx)]
    /\ pc' = "decode_vop_header"
    /\ calls' = calls + 1

Next == DecodeVolHeader \/ DecodeVopHeader

Spec == Init /\ [][Next]_vars

C4_BVopSkipped ==
    (pc = "decode_vop_header" /\ ctx.pict_type = AV_PICTURE_TYPE_B)
        => /\ ctx.pb_time = ctx.pp_time - (ctx.last_non_b_time - ctx.time)
           /\ ctx.pp_time <= ctx.pb_time =>
                  /\ ret = FRAME_SKIPPED
                  /\ ~ev.vop.pts_computed
                  /\ ~ev.vop.direct_mv_init

C4_Witness ==
    /\ pc = "decode_vop_header"
    /\ ctx.pict_type = AV_PICTURE_TYPE_B
    /\ ctx.pp_time > 0
    /\ ctx.pp_time = ctx.pb_time
    /\ ret = FRAME_SKIPPED

\* position of the time increment field: after the type, the modulo time base
\* with its closing 0 and the marker
VopTimePos == 2 + CountOnes(gb.buf, 2, Len(gb.buf) + 1) + 2

\* the bit after a time increment of the width known before the call is 0
VopMarkerMissing ==
    \/ ev.before.time_increment_bits = 0
    \/ BitAt(gb.buf, VopTimePos + ev.before.time_increment_bits) = 0

\* the bits after a time increment of width w match the picture type's pattern
VopPattern(w) ==
    LET b(k) == BitAt(gb.buf, VopTimePos + w + k)
    IN  IF ctx.pict_type = AV_PICTURE_TYPE_P
           \/ (ctx.pict_type = AV_PICTURE_TYPE_S /\ ctx.vol_sprite_usage = GMC_SPRITE)
        THEN b(0) = 1 /\ b(1) = 1 /\ b(3) = 0 /\ b(4) = 0 /\ b(5) = 0
        ELSE b(0) = 1 /\ b(1) = 1 /\ b(2) = 0 /\ b(3) = 0 /\ b(4) = 0

VopPatternWidths == {w \in 1..15 : VopPattern(w)}

\* C5: when the bit after the time increment field is 0 (or time_increment_bits
\* is 0), time_increment_bits becomes the smallest width in 1..15 whose
\* following bits match the pattern of the picture type, and the time
\* increment is read with the resulting width (16 when no width matches).
C5_SmallestMatchingWidth ==
    (pc = "decode_vop_header" /\ VopMarkerMissing)
        => /\ VopPatternWidths # {} =>
                  /\ ctx.time_increment_bits \in VopPatternWidths
                  /\ \A w \in VopPatternWidths : ctx.time_increment_bits <= w
           /\ VopPatternWidths = {} => ctx.time_increment_bits = 16
           /\ ev.vop.time_increment_width = ctx.time_increment_bits
           /\ ev.vop.time_increment =
                  BitsValue(gb.buf, VopTimePos, ctx.time_increment_bits)

C5_Witness ==
    /\ pc = "decode_vop_header"
    /\ VopMarkerMissing
    /\ ev.before.time_increment_bits = 4
    /\ ctx.time_increment_bits = 2
    /\ VopPatternWidths = {2}
    /\ ev.vop.time_increment = 3
    /\ ret = 0

\* C6 as stated: decode_vop_header leaves every SequenceConfig field as it was.
C6_SequenceConfigUnchanged ==
    pc = "decode_vop_header" => SequenceConfig(ctx) = ev.before

\* C6 amended: decode_vop_header leaves shape, quant_precision,
\* vol_sprite_usage, num_sprite_warping_points, sprite_warping_accuracy,
\* resync_marker, data_partitioning and rvlc as they were; time_increment_bits
\* is left alone only when the marker bit after the time increment is set, and
\* is otherwise replaced by the width found in the bitstream.
C6_OnlyTimeIncrementBitsChanges ==
    pc = "decode_vop_header" =>
        /\ [SequenceConfig(ctx) EXCEPT !.time_increment_bits = 0]
               = [ev.before EXCEPT !.time_increment_bits = 0]
        /\ ~VopMarkerMissing => ctx.time_increment_bits = ev.before.time_increment_bits

C6_Witness ==
    /\ pc = "decode_vop_header"
    /\ ev.before.time_increment_bits = 5
    /\ ev.before.data_partitioning = 1
    /\ ctx.time_increment_bits = 2
    /\ ctx.data_partitioning = 1
    /\ ret = 0

\* C15: when the vop_coded bit of a VOP header is read as 0,
\* decode_vop_header returns FRAME_SKIPPED, sets skipped_last_frame to 1 and
\* leaves qscale, f_code, b_code, no_rounding and picture_number unchanged.
C15_VopNotCodedSkipsFrame ==
    (pc = "decode_vop_header" /\ ev.vop.vop_coded = 0) =>
        /\ ret = FRAME_SKIPPED
        /\ ret >= 0
        /\ ctx.skipped_last_frame = 1
        /\ FrameFields(ctx) = ev.frame

\* a VOP that is not coded follows a coded P-VOP that set the fields
C15_Witness ==
    /\ pc = "decode_vop_header"
    /\ ev.vop.vop_coded = 0
    /\ ret = FRAME_SKIPPED
    /\ ev.frame.qscale > 0
    /\ ev.frame.f_code > 0
    /\ ev.frame.picture_number > 0
    /\ ctx.qscale = ev.frame.qscale

(***************************************************************************)
(* SpecVol: decode_vol_header on VOL headers with custom quantisation      *)
(* matrices, for the idct permutations of the idsp implementations.        *)
(***************************************************************************)
MatrixValues(k) == [i \in 1..k |-> 1 + ((i * 37) % 250)]

Matrices ==
    { NoMatrix, Matrix(<<>>), Matrix(<<9>>), Matrix(<<3, 1, 200>>),
      Matrix(MatrixValues(63)), Matrix(MatrixValues(64)) }

InitVol ==
    /\ \E perm \in {PermNone, PermTranspose, PermLibmpeg2} :
          ctx = [CtxInit EXCEPT !.idct_permutation = perm]
    /\ gb = Reader(<<>>)
    /\ ret = 0
    /\ pc = "decode_init"
    /\ ev = NoEv
    /\ calls = 0

DecodeVolMatrices ==
    /\ pc = "decode_init"
    /\ \E intra \in Matrices, inter \in Matrices, cut \in BOOLEAN :
          LET full == VolBits([VolParams(1, 16, 0, 0, 0) EXCEPT
                                  !.mq = 1, !.intra = intra, !.inter = inter])
              b    == IF cut THEN SubSeq(full, 1, Len(full) \div 2) ELSE full
          IN  \E r \in {decode_vol_header(ctx, Reader(b))} :
                  /\ ctx' = r.ctx
                  /\ gb' = r.gb
                  /\ ret' = r.ret
                  /\ ev' = [intra |-> intra, inter |-> inter, cut |-> cut]
    /\ pc' = "decode_vol_header"
    /\ UNCHANGED calls

NextVol == DecodeVolMatrices

SpecVol == InitVol /\ [][NextVol]_vars

\* the matrix m holds the values vs in scan order, the last one repeated
MatrixHolds(m, vs) ==
    \A i \in 0..63 :
        m[ctx.idct_permutation[ff_zigzag_direct[i + 1]]] =
            IF i < Len(vs) THEN vs[i + 1] ELSE vs[Len(vs)]

\* C7: a custom intra or non-intra matrix with the values v0..v(k-1), k >= 1,
\* followed by a zero byte (or with 64 values) is stored with vi at
\* idct_permutation[ff_zigzag_direct[i]] for i < k and v(k-1) at
\* idct_permutation[ff_zigzag_direct[i]] for i in k..63.
C7_MatrixReplicated ==
    (pc = "decode_vol_header" /\ ~ev.cut)
        => /\ (ev.intra.load = 1 /\ Len(ev.intra.vs) >= 1)
                  => MatrixHolds(ctx.intra_matrix, ev.intra.vs)
           /\ (ev.inter.load = 1 /\ Len(ev.inter.vs) >= 1)
                  => MatrixHolds(ctx.inter_matrix, ev.inter.vs)

C7_Witness ==
    /\ pc = "decode_vol_header"
    /\ ~ev.cut
    /\ ret = 0
    /\ ctx.idct_permutation = PermLibmpeg2
    /\ ev.intra = Matrix(<<3, 1, 200>>)
    /\ ev.inter = Matrix(MatrixValues(63))
    /\ ctx.intra_matrix[PermLibmpeg2[ff_zigzag_direct[2 + 1]]] = 200
    /\ ctx.intra_matrix[PermLibmpeg2[ff_zigzag_direct[63 + 1]]] = 200
    /\ ctx.inter_matrix[PermLibmpeg2[ff_zigzag_direct[63 + 1]]] = MatrixValues(63)[63]

(***************************************************************************)
(* SpecResync: mpeg4_is_resync in front of stuffing codes, resync markers  *)
(* with every zero run around the prefix length, and the end of the data.  *)
(***************************************************************************)
\* a macroblock stuffing code of the picture type
StuffingCode(pict_type) == Rep(0, 7 + pict_type) \o <<1>>

\* a zero bit and one bits up to the byte boundary, from bit offset o
MarkerStuffing(o) == <<0>> \o Rep(1, 7 - (o % 8))

\* o leading bits, n stuffing codes, the byte stuffing, then a marker of
\* k zero bits, a one bit, the macroblock number and the quantiser
ResyncStream(pict_type, o, n, k, mbn, tw) ==
    LET head == Rep(1, o) \o (IF n = 0 THEN <<>> ELSE StuffingCode(pict_type))
                          \o (IF n = 2 THEN StuffingCode(pict_type) ELSE <<>>)
    IN  head \o MarkerStuffing(Len(head)) \o Rep(0, k) \o <<1>> \o Bits(mbn, tw)
             \o Bits(5, 5) \o Rep(0, 8)

ResyncZeros == {15, 16, 17, 18, 19}

ResyncStreams(pict_type) ==
    { ResyncStream(pict_type, o, n, k, mbn, av_log2(MbWidth * MbHeight - 1) + 1) :
          o \in {0, 3}, n \in 0..2, k \in ResyncZeros,
          mbn \in {0, 4, MbWidth * MbHeight + 1} }
    \cup { Rep(1, o) \o t \o MarkerStuffing(o + Len(t)) :
              o \in {0, 3}, t \in {<<>>, StuffingCode(pict_type)} }
    \cup { Rep(1, o) \o t \o <<1, 0, 1, 1, 0, 0, 1, 0>> \o Rep(1, 24) :
              o \in {0, 3}, t \in {<<>>, StuffingCode(pict_type)} }

InitResync ==
    /\ \E pt \in {AV_PICTURE_TYPE_I, AV_PICTURE_TYPE_P, AV_PICTURE_TYPE_B, AV_PICTURE_TYPE_S},
          fc \in 1..2, bc \in {1, 3}, pf \in 0..1,
          bugs \in {{}, {"NO_PADDING"}}, rm \in 0..1 :
          ctx = [CtxInit EXCEPT !.pict_type = pt, !.f_code = fc, !.b_code = bc,
                                !.partitioned_frame = pf, !.workaround_bugs = bugs,
                                !.resync_marker = rm,
                                !.mb_width = MbWidth, !.mb_height = MbHeight,
                                !.mb_num = MbWidth * MbHeight]
    /\ gb = Reader(<<>>)
    /\ ret = 0
    /\ pc = "init"
    /\ ev = NoEv
    /\ calls = 0

\* mpeg4_is_resync is called at bit offset o of the data
IsResync ==
    /\ pc = "init"
    /\ \E b \in ResyncStreams(ctx.pict_type), o \in {0, 3} :
          \E r \in {mpeg4_is_resync(ctx, skip_bits(Reader(b), o))} :
              /\ gb' = r.gb
              /\ ret' = r.ret
              /\ ev' = [before |-> o, branch |-> r.branch, len |-> r.len]
    /\ pc' = "is_resync"
    /\ UNCHANGED <<ctx, calls>>

NextResync == IsResync

SpecResync == InitResync /\ [][NextResync]_vars

\* the prefix length the video packet header requires
ResyncPrefixLength ==
    ff_mpeg4_get_video_packet_prefix_length(ctx.pict_type, ctx.f_code, ctx.b_code)

\* C12 as stated: a marker is reported only for a zero run of exactly the
\* prefix length
C12_ReportedRunIsExact ==
    (pc = "is_resync" /\ ev.branch = "prefix" /\ ret # 0) =>
        ev.len = ResyncPrefixLength

\* C12: mpeg4_is_resync reports a marker from the resync-prefix branch only
\* when the zero run before the first 1 bit is at least the prefix length; the
\* prefix-length check of the video packet header passes on it exactly when
\* the run equals the prefix length.
C12_ReportedRunIsLongEnough ==
    (pc = "is_resync" /\ ev.branch = "prefix" /\ ret # 0) =>
        /\ ev.len >= ResyncPrefixLength
        /\ ~VideoPacketPrefixMismatch(ctx, ev.len) <=> ev.len = ResyncPrefixLength

\* a marker is reported whose zero run is longer than the prefix length
C12_Witness ==
    /\ pc = "is_resync"
    /\ ev.branch = "prefix"
    /\ ret > 0
    /\ ev.len > ResyncPrefixLength
    /\ VideoPacketPrefixMismatch(ctx, ev.len)

\* the stuffing codes in front of the position of the call
RECURSIVE StuffingCodesAt(_, _)
StuffingCodesAt(buf, i) ==
    IF IsResyncStuffing(ctx, [buf |-> buf, index |-> i])
    THEN 1 + StuffingCodesAt(buf, i + 8 + ctx.pict_type)
    ELSE 0

\* C13 as stated: the reader is where it was before the call
C13_ReaderUnmoved ==
    pc = "is_resync" => get_bits_count(gb) = ev.before

\* C13: after mpeg4_is_resync the reader is behind the macroblock stuffing
\* codes that stood at the position of the call, (8 + pict_type) bits each, and
\* it is where it was when there were none, in a B picture, in a partitioned
\* frame and when the function returns for FF_BUG_NO_PADDING.
C13_ReaderMovesOverStuffingOnly ==
    pc = "is_resync" =>
        /\ get_bits_count(gb) =
               ev.before + IF ev.branch = "no_padding" THEN 0
                           ELSE (8 + ctx.pict_type) * StuffingCodesAt(gb.buf, ev.before)
        /\ (\/ ctx.pict_type = AV_PICTURE_TYPE_B
            \/ ctx.partitioned_frame # 0
            \/ ev.branch = "no_padding") => get_bits_count(gb) = ev.before

\* two stuffing codes are skipped in front of a reported marker
C13_Witness ==
    /\ pc = "is_resync"
    /\ ev.branch = "prefix"
    /\ ret > 0
    /\ get_bits_count(gb) = ev.before + 2 * (8 + ctx.pict_type)

(***************************************************************************)
(* SpecCplx: decode_vol_header on VOL headers whose complexity estimation  *)
(* header has every combination of present groups and marker bits.         *)
(***************************************************************************)
\* a complexity estimation header: the method, the four groups (each its
\* disable bit and flags), the two markers and the flags of method 1
CplxHeaderBits(h) ==
    Bits(h.method, 2) \o h.g1 \o h.g2 \o <<h.m1>> \o h.g3 \o h.g4 \o <<h.m2>>
        \o (IF h.method = 1 THEN <<1, 1>> ELSE <<>>)

CplxHeaders ==
    [method : 0..1,
     g1 : {<<1>>, <<0, 0, 0, 1, 0, 0, 0>>, <<0, 1, 1, 1, 1, 1, 1>>},
     g2 : {<<1>>, <<0, 1, 1, 0, 1>>},
     m1 : 0..1,
     g3 : {<<1>>, <<0, 1, 0, 0, 1>>},
     g4 : {<<1>>, <<0, 0, 0, 1, 0, 0, 1>>},
     m2 : 0..1]

\* the counters are those of construction or those an earlier header left
InitCplx ==
    /\ \E t \in {<<0, 0, 0>>, <<64, 16, 8>>} : ctx = CplxStore(CtxInit, t)
    /\ gb = Reader(<<>>)
    /\ ret = 0
    /\ pc = "decode_init"
    /\ ev = NoEv
    /\ calls = 0

\* decode_vol_header on a VOL header with the complexity estimation header h
DecodeVolCplx ==
    /\ pc = "decode_init"
    /\ \E h \in CplxHeaders, ver \in 1..2 :
          LET p == [VolParams(ver, 16, 0, 0, 0) EXCEPT
                        !.cplx = 1, !.cplxbits = CplxHeaderBits(h)]
          IN  \E r \in {decode_vol_header(ctx, Reader(VolBits(p)))} :
                  /\ ctx' = r.ctx
                  /\ gb' = r.gb
                  /\ ret' = r.ret
                  /\ ev' = [pos |-> Len(VolBitsBeforeCplx(p)) + 1,
                            header |-> h,
                            trash |-> <<ctx.cplx_estimation_trash_i,
                                        ctx.cplx_estimation_trash_p,
                                        ctx.cplx_estimation_trash_b>>]
    /\ pc' = "decode_vol_header"
    /\ UNCHANGED calls

NextCplx == DecodeVolCplx

SpecCplx == InitCplx /\ [][NextCplx]_vars

\* C14: when a marker bit inside the complexity estimation header is 0, the
\* three counters cplx_estimation_trash_i/p/b are 0 and the header goes on
\* from the position recorded before the estimation_method field: the bit
\* there is read as resync_marker_disabled, the next one as
\* data_partitioning and, when that is set, the one after it as rvlc.
C14_MissingMarkerRewinds ==
    (pc = "decode_vol_header" /\ (ev.header.m1 = 0 \/ ev.header.m2 = 0)) =>
        /\ ctx.cplx_estimation_trash_i = 0
        /\ ctx.cplx_estimation_trash_p = 0
        /\ ctx.cplx_estimation_trash_b = 0
        /\ ctx.resync_marker = 1 - BitAt(gb.buf, ev.pos)
        /\ ctx.data_partitioning = BitAt(gb.buf, ev.pos + 1)
        /\ ctx.data_partitioning = 1 => ctx.rvlc = BitAt(gb.buf, ev.pos + 2)

\* the second marker is missing after flags were counted, in a context whose
\* counters an earlier header had set
C14_Witness ==
    /\ pc = "decode_vol_header"
    /\ ev.header.m1 = 1
    /\ ev.header.m2 = 0
    /\ ev.header.method = 1
    /\ Len(ev.header.g1) > 1
    /\ ev.trash[1] > 0
    /\ ctx.cplx_estimation_trash_i = 0
    /\ ctx.data_partitioning = 1

(***************************************************************************)
(* SpecThreads: two frame-thread contexts; each parses VOL and VOP headers *)
(* and takes the other's fields by mpeg4_update_thread_context.            *)
(***************************************************************************)
MaxThreadSteps == 3

Threads == 1..2

ThreadVolParams ==
    { VolParams(2, 16, GMC_SPRITE, np, 0) : np \in {0, 1, 3, 4, 63} }
    \cup { VolParams(2, 16, STATIC_SPRITE, 2, 0), VolParams(2, 16, STATIC_SPRITE, 7, 0),
           VolParams(1, 16, 0, 0, 0) }

ThreadVopStreams ==
    { VopBits([VopParams(AV_PICTURE_TYPE_S, 0, 4, 1) EXCEPT !.pts = pts]) :
          pts \in {<<>>, <<<<3, -5>>>>, <<<<2, 1>>, <<-3, 0>>, <<1, 1>>>>} }

InitThreads ==
    /\ ctx = [t \in Threads |-> CtxInit]
    /\ gb = Reader(<<>>)
    /\ ret = 0
    /\ pc = "decode_init"
    /\ ev = NoEv
    /\ calls = 0

\* thread t parses a VOL header, whole or cut short
ThreadVolHeader ==
    /\ calls < MaxThreadSteps
    /\ \E t \in Threads, p \in ThreadVolParams, cut \in BOOLEAN :
          LET full == VolBits(p)
              b    == IF cut THEN SubSeq(full, 1, Len(full) - 30) ELSE full
          IN  \E r \in {decode_vol_header(ctx[t], Reader(b))} :
                  /\ ctx' = [ctx EXCEPT ![t] = r.ctx]
                  /\ gb' = r.gb
                  /\ ret' = r.ret
                  /\ ev' = [thread |-> t,
                            coded_points |-> IF p.ver # 1 /\ p.sprite # 0 /\ ~cut
                                             THEN p.np ELSE -1,
                            points |-> ctx[t].num_sprite_warping_points]
    /\ pc' = "decode_vol_header"
    /\ calls' = calls + 1

\* thread t parses the header of an S-VOP
ThreadVopHeader ==
    /\ calls < MaxThreadSteps
    /\ \E t \in Threads, b \in ThreadVopStreams :
          \E r \in {decode_vop_header(ctx[t], Reader(b), FALSE)} :
              /\ ctx' = [ctx EXCEPT ![t] = r.ctx]
              /\ gb' = r.gb
              /\ ret' = r.ret
              /\ ev' = [thread |-> t, sprite_called |-> r.ev.sprite_called,
                        points |-> ctx[t].num_sprite_warping_points]
    /\ pc' = "decode_vop_header"
    /\ calls' = calls + 1

\* thread dst takes the fields of thread src
UpdateThreadContext ==
    /\ calls < MaxThreadSteps
    /\ \E dst \in Threads, src \in Threads, mpv_ret \in {0, AVERROR_INVALIDDATA} :
          /\ dst # src
          /\ \E r \in {mpeg4_update_thread_context(ctx[dst], ctx[src], mpv_ret)} :
                /\ ctx' = [ctx EXCEPT ![dst] = r.ctx]
                /\ ret' = r.ret
          /\ ev' = [thread |-> dst, points |-> ctx[dst].num_sprite_warping_points]
    /\ pc' = "update_thread_context"
    /\ calls' = calls + 1
    /\ UNCHANGED gb

NextThreads == ThreadVolHeader \/ ThreadVopHeader \/ UpdateThreadContext

SpecThreads == InitThreads /\ [][NextThreads]_vars

\* C16: after any sequence of VOL header parses and thread-context updates,
\* num_sprite_warping_points of every context is in {0,1,2,3}: a VOL header
\* coding more than 3 warping points returns AVERROR_INVALIDDATA and leaves
\* the field at 0, so mpeg4_decode_sprite_trajectory is only entered with a
\* value its switch has a case for.
C16_WarpingPointsInRange ==
    /\ \A t \in Threads : ctx[t].num_sprite_warping_points \in 0..3
    /\ (pc = "decode_vol_header" /\ ev.coded_points > 3) =>
           /\ ret = AVERROR_INVALIDDATA
           /\ ctx[ev.thread].num_sprite_warping_points = 0
    /\ (pc = "decode_vop_header" /\ ev.sprite_called) =>
           ctx[ev.thread].num_sprite_warping_points \in 0..3

\* a thread that took 3 warping points from the other one parses a VOL
\* header coding 63
C16_Witness ==
    /\ pc = "decode_vol_header"
    /\ ev.coded_points = 63
    /\ ev.points = 3
    /\ ret = AVERROR_INVALIDDATA
    /\ ctx[ev.thread].num_sprite_warping_points = 0
    /\ \E t \in Threads : ctx[t].num_sprite_warping_points = 3

(***************************************************************************)
(* SpecFrame: the VOP header of a frame followed by the video packet       *)
(* headers of the same frame.                                              *)
(***************************************************************************)
MaxFrameCalls == 3

FrameVopParams ==
    { [VopParams(pt, 0, 4, ti) EXCEPT !.q = q, !.fc = fc, !.bc = bc] :
          pt \in {AV_PICTURE_TYPE_I, AV_PICTURE_TYPE_P, AV_PICTURE_TYPE_B},
          ti \in {1, 3}, q \in {0, 5}, fc \in {0, 1, 7}, bc \in {0, 3} }

InitFrame ==
    /\ \E sh \in {RECT_SHAPE, BIN_SHAPE, BIN_ONLY_SHAPE} :
          ctx = [CtxInit EXCEPT !.shape = sh,
                                !.width = 16 * MbWidth, !.height = 16 * MbHeight,
                                !.mb_width = MbWidth, !.mb_height = MbHeight,
                                !.mb_num = MbWidth * MbHeight]
    /\ gb = Reader(<<>>)
    /\ ret = 0
    /\ pc = "decode_init"
    /\ ev = [frame_ok |-> FALSE]
    /\ calls = 0

\* the VOP header of the next frame
FrameVopHeader ==
    /\ calls < MaxFrameCalls
    /\ \E p \in FrameVopParams :
          \E r \in {decode_vop_header(ctx,
                       Reader(VopBits([p EXCEPT !.nonrect = IF ctx.shape = RECT_SHAPE
                                                            THEN <<>> ELSE VopNonRectBits])),
                       FALSE)} :
              /\ ctx' = r.ctx
              /\ gb' = r.gb
              /\ ret' = r.ret
              /\ ev' = [frame_ok |-> r.ret = 0, coded |-> p]
    /\ pc' = "decode_vop_header"
    /\ calls' = calls + 1

\* a video packet header inside the frame whose VOP header returned 0
FrameVideoPacketHeader ==
    /\ calls < MaxFrameCalls
    /\ ev.frame_ok
    /\ \E q \in {0, 9}, he \in 0..1, mbn \in {0, 4} :
          LET k == ff_mpeg4_get_video_packet_prefix_length(ctx.pict_type, ctx.f_code,
                                                           ctx.b_code)
              b == PacketStream(k, IF ctx.shape = RECT_SHAPE THEN <<>> ELSE <<he>>, mbn,
                                av_log2(ctx.mb_num - 1) + 1, q, he)
          IN  \E r \in {ff_mpeg4_decode_video_packet_header(ctx, Reader(b))} :
                  /\ ctx' = r.ctx
                  /\ gb' = r.gb
                  /\ ret' = r.ret
                  /\ ev' = [frame_ok |-> TRUE, coded_qscale |-> q,
                            qscale |-> ctx.qscale]
    /\ pc' = "video_packet_header"
    /\ calls' = calls + 1

NextFrame == FrameVopHeader \/ FrameVideoPacketHeader

SpecFrame == InitFrame /\ [][NextFrame]_vars

\* the VOP header coded a zero quantiser, a zero f_code in a non-I VOP or a
\* zero b_code in a B VOP
FrameZeroCoded ==
    \/ ev.coded.q = 0
    \/ ev.coded.pt # AV_PICTURE_TYPE_I /\ ev.coded.fc = 0
    \/ ev.coded.pt = AV_PICTURE_TYPE_B /\ ev.coded.bc = 0

\* C17: from the return of 0 of decode_vop_header (parse_only 0, shape not
\* BIN_ONLY_SHAPE) through the video packet headers of the frame,
\* qscale >= 1, 1 <= f_code <= 7 and 1 <= b_code <= 7; a VOP
\* header coding a zero quantiser, a zero f_code in a non-I VOP or a zero
\* b_code in a B VOP does not return 0: it returns AVERROR_INVALIDDATA unless
\* the VOP was skipped before these fields.
C17_QuantiserAndCodesPositive ==
    /\ (ev.frame_ok /\ ctx.shape # BIN_ONLY_SHAPE) =>
           /\ ctx.qscale >= 1
           /\ ctx.f_code \in 1..7
           /\ ctx.b_code \in 1..7
    /\ (pc = "decode_vop_header" /\ ctx.shape # BIN_ONLY_SHAPE /\ FrameZeroCoded) =>
           ret \in {AVERROR_INVALIDDATA, FRAME_SKIPPED}
    /\ (pc = "video_packet_header" /\ ctx.shape # BIN_ONLY_SHAPE
          /\ ev.coded_qscale = 0 /\ ret = 0) => ctx.qscale = ev.qscale

\* a packet header coding the quantiser 0 is accepted in a B-VOP with f_code 7
C17_Witness ==
    /\ pc = "video_packet_header"
    /\ ret = 0
    /\ ctx.shape = RECT_SHAPE
    /\ ctx.pict_type = AV_PICTURE_TYPE_B
    /\ ev.coded_qscale = 0
    /\ ctx.qscale = 5
    /\ ctx.f_code = 7
    /\ ctx.b_code = 3

(***************************************************************************)
(* SpecBlock: the coefficient loop of mpeg4_decode_block on blocks of      *)
(* three codes: table codes, the three escapes, the reversible escape,     *)
(* codes the table does not have and escapes with missing markers.         *)
(***************************************************************************)
\* what a code stands for: the branch that reads it, last, run and the
\* signed level before the quantiser is applied
Chunk(bits, path, last, run, lv) ==
    [bits |-> bits, path |-> path, last |-> last, run |-> run, lv |-> lv]

EscapeCode == h263_rl_inter[6].bits

ChunkDirect(e, neg) ==
    Chunk(e.bits \o <<neg>>, "direct", e.last, e.run,
          IF neg = 1 THEN -e.level ELSE e.level)

ChunkFirst(e, neg) ==
    Chunk(EscapeCode \o <<0>> \o e.bits \o <<neg>>, "first_escape", e.last, e.run,
          (IF neg = 1 THEN -1 ELSE 1) * (e.level + rl_max_level(e.last, e.run)))

ChunkSecond(e, neg) ==
    Chunk(EscapeCode \o <<1, 0>> \o e.bits \o <<neg>>, "second_escape", e.last,
          e.run + rl_max_run(e.last, e.level) + 1,
          IF neg = 1 THEN -e.level ELSE e.level)

ChunkThird(last, run, lv, m1, m2) ==
    Chunk(EscapeCode \o <<1, 1>> \o <<last>> \o Bits(run, 6) \o <<m1>>
              \o Bits((lv + 4096) % 4096, 12) \o <<m2>>,
          "third_escape", last, run, lv)

ChunkRvlc(last, run, lv, m1, tail) ==
    Chunk(rvlc_rl_inter[2].bits \o <<m1>> \o <<last>> \o Bits(run, 6) \o <<1>>
              \o Bits(Abs(lv), 11) \o tail \o <<IF lv < 0 THEN 1 ELSE 0>>,
          "rvlc_escape", last, run, lv)

BlockChunks ==
    { ChunkDirect(h263_rl_inter[1], 0), ChunkDirect(h263_rl_inter[3], 1),
      ChunkDirect(h263_rl_inter[5], 0), ChunkDirect(h263_rl_inter[5], 1),
      ChunkFirst(h263_rl_inter[1], 0), ChunkFirst(h263_rl_inter[5], 1),
      ChunkSecond(h263_rl_inter[1], 0), ChunkSecond(h263_rl_inter[5], 1),
      ChunkThird(0, 0, 5, 1, 1), ChunkThird(0, 61, -3, 1, 1), ChunkThird(0, 62, 5, 1, 1),
      ChunkThird(0, 63, 5, 1, 1), ChunkThird(1, 63, 0, 1, 1), ChunkThird(1, 5, 2047, 1, 1),
      ChunkThird(0, 0, 5, 0, 1),
      Chunk(EscapeCode \o <<0>> \o EscapeCode \o <<0>>, "first_escape", 0, 65, 0),
      Chunk(Rep(0, 8), "direct", 0, 65, 0) }

RvlcBlockChunks ==
    { Chunk(rvlc_rl_inter[1].bits \o <<0>>, "direct", 0, 0, 1),
      Chunk(rvlc_rl_inter[1].bits \o <<1>>, "direct", 0, 0, -1),
      ChunkRvlc(0, 61, 5, 1, <<1, 0, 0, 0, 0>>), ChunkRvlc(1, 63, -7, 1, <<1, 0, 0, 0, 0>>),
      ChunkRvlc(0, 63, 1, 1, <<1, 0, 0, 0, 0>>), ChunkRvlc(1, 0, 1, 0, <<1, 0, 0, 0, 0>>),
      ChunkRvlc(1, 0, 1, 1, <<1, 0, 0, 0, 1>>) }

InitBlock ==
    /\ \E q \in {1, 4}, mq \in 0..1 :
          ctx = [CtxInit EXCEPT !.qscale = q, !.chroma_qscale = q, !.mpeg_quant = mq]
    /\ gb = Reader(<<>>)
    /\ ret = 0
    /\ pc = "decode_mb"
    /\ ev = NoEv
    /\ calls = 0

\* mpeg4_decode_block reads a block of three codes
DecodeBlock ==
    /\ pc = "decode_mb"
    /\ \E rvlc \in BOOLEAN, start \in {<<FALSE, -1>>, <<TRUE, -1>>, <<TRUE, 0>>},
          err \in {{}, {"IGNORE_ERR"}, {"BITSTREAM"}} :
          \E c1 \in (IF rvlc THEN RvlcBlockChunks ELSE BlockChunks),
             c2 \in (IF rvlc THEN RvlcBlockChunks ELSE BlockChunks),
             c3 \in (IF rvlc THEN RvlcBlockChunks ELSE BlockChunks) :
              \E r \in {mpeg4_decode_block(ctx,
                            Reader(c1.bits \o c2.bits \o c3.bits \o Rep(0, 16)),
                            start[1], start[2], rvlc, err)} :
                  /\ gb' = r.gb
                  /\ ret' = r.ret
                  /\ ev' = [chunks |-> <<c1, c2, c3>>, intra |-> start[1],
                            i0 |-> start[2], rvlc |-> rvlc, err |-> err,
                            stores |-> r.stores, coefs |-> r.coefs, i |-> r.i]
    /\ pc' = "decode_block"
    /\ UNCHANGED <<ctx, calls>>

NextBlock == DecodeBlock

SpecBlock == InitBlock /\ [][NextBlock]_vars

\* the position of a read coefficient, without the 192 of the last flag
CoefPosition(c) == IF c.i >= 192 THEN c.i - 192 ELSE c.i

\* C18: every store block[scan_table[i]] of the coefficient loop has
\* 0 <= i <= 63.  Each coefficient read but the last one of the call is
\* without the last flag and is stored at its position, which is <= 62; a
\* coefficient with the last flag (192 added) ends the call with 0 and is
\* stored iff its position without the 192 is in 0..63; position 63
\* without the last flag and every position above 63 end the call with
\* AVERROR_INVALIDDATA and no store.
C18_StoreIndexInRange ==
    pc = "decode_block" =>
        LET n == Len(ev.coefs)
        IN  /\ \A x \in 1..Len(ev.stores) : ev.stores[x].i \in 0..63
            /\ Len(ev.stores) = IF ret < 0 THEN n - 1 ELSE n
            /\ \A x \in 1..Len(ev.stores) : ev.stores[x].i = CoefPosition(ev.coefs[x])
            /\ \A x \in 1..(n - 1) : ev.coefs[x].ok /\ ev.coefs[x].i \in 0..62
            /\ ret = 0 => ev.coefs[n].ok /\ ev.coefs[n].i \in 192..255
            /\ ret # 0 => /\ ret = AVERROR_INVALIDDATA
                          /\ ~ev.coefs[n].ok \/ ev.coefs[n].i \in 63..191
                               \/ ev.coefs[n].i > 255
            /\ ev.coefs[n].ok =>
                   (ret = 0 <=> ev.coefs[n].i >= 192 /\ ev.coefs[n].i - 192 <= 63)

\* the third coefficient has the last flag and is stored at position 63
C18_Witness ==
    /\ pc = "decode_block"
    /\ ret = 0
    /\ Len(ev.stores) = 3
    /\ ev.stores[2].i = 62
    /\ ev.stores[3].i = 63
    /\ ev.coefs[3].i = 255

\* the level a code stands for after the quantiser: level * qmul + qadd
\* with the sign of the level
ChunkLevel(c) ==
    LET q == DecodeBlockScale(ctx, ev.intra)
    IN  IF c.lv > 0 THEN c.lv * q.qmul + q.qadd ELSE c.lv * q.qmul - q.qadd

\* C19: with the tables that are not reversible, a coefficient is read by an
\* escape branch iff the table gave level 0; the first bit after the escape
\* code being 0 selects the first escape (the level of the next table code
\* widened by max_level), the bits 10 the second escape (its run widened by
\* max_run + 1), the bits 11 the third escape (last, a 6-bit run and a 12-bit
\* signed level); a code with a nonzero level is read by the direct branch.
\* Each code of the block is read by the branch it was written for, with its
\* run, last flag and level.
C19_EscapeTierBySelectorBits ==
    (pc = "decode_block" /\ ~ev.rvlc) =>
        \A x \in 1..Len(ev.coefs) :
            LET c == ev.coefs[x]
            IN  /\ c.path = "direct" <=> c.table_level # 0
                /\ c.table_level = 0 =>
                       c.path = CASE c.next_bits[1] = 0 -> "first_escape"
                                  [] c.next_bits = <<1, 0>> -> "second_escape"
                                  [] OTHER -> "third_escape"
                /\ x <= Len(ev.chunks) =>
                       LET w == ev.chunks[x]
                       IN  /\ c.path = w.path
                           /\ c.ok => c.i = c.from + w.run + 1 + 192 * w.last
                           /\ (x <= Len(ev.stores) /\ w.lv # 2047) =>
                                  ev.stores[x].level = ChunkLevel(w)

\* a block read by the first, the second and the third escape in turn
C19_Witness ==
    /\ pc = "decode_block"
    /\ ~ev.rvlc
    /\ ret = 0
    /\ Len(ev.stores) = 3
    /\ ev.coefs[1].path = "first_escape"
    /\ ev.coefs[2].path = "second_escape"
    /\ ev.coefs[3].path = "third_escape"
    /\ ev.stores[1].level = ChunkLevel(ev.chunks[1])

(***************************************************************************)
(* Data partitioning (lines 1026-1370).  The variable-length code tables   *)
(* hold the codes the streams of SpecPartitions are written with; any      *)
(* other bits in front of the reader are an invalid code.                  *)
(***************************************************************************)
DC_MARKER == 438273

MOTION_MARKER == 126977

quant_tab == <<-1, -2, 1, 2>>

\* ff_h263_intra_MCBPC_vlc: cbpc 0, cbpc 4 (dquant) and the stuffing code 8
intra_MCBPC_vlc ==
    << [bits |-> <<1>>, code |-> 0],
       [bits |-> <<0, 0, 0, 1>>, code |-> 4],
       [bits |-> <<0, 0, 0, 0, 0, 0, 0, 0, 1>>, code |-> 8] >>

\* ff_h263_inter_MCBPC_vlc: inter, intra (4), inter with dquant (8), four
\* vectors (16) and the stuffing code 20
inter_MCBPC_vlc ==
    << [bits |-> <<1>>, code |-> 0],
       [bits |-> <<0, 0, 0, 1, 1>>, code |-> 4],
       [bits |-> <<0, 1, 1>>, code |-> 8],
       [bits |-> <<0, 1, 0>>, code |-> 16],
       [bits |-> <<0, 0, 0, 0, 0, 0, 0, 0, 1>>, code |-> 20] >>

\* ff_h263_cbpy_vlc: cbpy 15 and cbpy 0
cbpy_vlc ==
    << [bits |-> <<1, 1>>, code |-> 15],
       [bits |-> <<0, 0, 1, 1>>, code |-> 0] >>

\* dc_lum and dc_chrom: the sizes 0 and 1
dc_lum ==
    << [bits |-> <<0, 1, 1>>, code |-> 0],
       [bits |-> <<1, 1>>, code |-> 1],
       [bits |-> <<0, 0, 0, 0, 0, 0, 1>>, code |-> 8] >>

dc_chrom ==
    << [bits |-> <<1, 1>>, code |-> 0],
       [bits |-> <<1, 0>>, code |-> 1] >>

\* ff_h263_mv_vlc: the differences 0 and 1 (the sign follows the code)
mv_vlc ==
    << [bits |-> <<1>>, code |-> 0],
       [bits |-> <<0, 1>>, code |-> 1] >>

\* get_vlc2: the code in front of the reader, negative when there is none
get_vlc2(g, vlc) ==
    LET hit == {x \in 1..Len(vlc) : BitsAhead(g, vlc[x].bits)}
    IN  IF hit = {} THEN [code |-> -1, gb |-> g]
        ELSE LET e == vlc[CHOOSE x \in hit : TRUE]
             IN  [code |-> e.code, gb |-> skip_bits(g, Len(e.bits))]

\* ff_set_qscale keeps the quantiser in 1..31
ff_set_qscale(qscale) == IF qscale < 1 THEN 1 ELSE IF qscale > 31 THEN 31 ELSE qscale

\* ff_mpeg4_y_dc_scale_table and ff_mpeg4_c_dc_scale_table at the quantiser
\* ff_set_qscale installed
y_dc_scale(qscale) ==
    IF qscale < 5 THEN 8 ELSE IF qscale < 9 THEN 2 * qscale
    ELSE IF qscale < 25 THEN qscale + 8 ELSE 2 * qscale - 16

c_dc_scale(qscale) ==
    IF qscale < 5 THEN 8 ELSE IF qscale < 25 THEN (qscale + 13) \div 2
    ELSE qscale - 6

\* dc_val[block_index[n]]: the four luminance blocks of a macroblock lie in
\* a plane two blocks wide per macroblock, the chrominance blocks in one
\* plane each; the margin of each plane is never written and holds 1024
DcCell(c, n, dx, dy) ==
    IF n < 4 THEN <<0, 2 * c.mb_x + (n % 2) + dx, 2 * c.mb_y + (n \div 2) + dy>>
    ELSE <<n - 3, c.mb_x + dx, c.mb_y + dy>>

DcAt(c, p) == IF p \in DOMAIN c.dc_val THEN c.dc_val[p] ELSE 1024

\* the neighbours mpeg4_pred_dc reads at dc_val + block_index[n]
DcWindow(c, n, wrap) ==
    [k \in {-1 - wrap, -wrap, -1} |->
        DcAt(c, DcCell(c, n, IF k = -wrap THEN 0 ELSE -1, IF k = -1 THEN 0 ELSE -1))]

\* mpeg4_get_level_dc: ret is the value returned, s the context with the
\* reconstructed DC stored, dc the reconstructed DC before it is clipped
mpeg4_get_level_dc(c, n, pred, level) ==
    LET scale == IF n < 4 THEN y_dc_scale(c.qscale) ELSE c_dc_scale(c.qscale)
        quant == level + ((pred + (scale \div 2)) \div scale)
        dc    == quant * scale
        strict == c.err_recognition \cap {"BITSTREAM", "AGGRESSIVE"} # {}
    IN  IF (dc < 0 \/ dc > 2047) /\ strict /\ (dc < 0 \/ dc > 2048 + scale)
        THEN [ret |-> AVERROR_INVALIDDATA, s |-> c, dc |-> dc]
        ELSE [ret |-> quant, dc |-> dc,
              s |-> [c EXCEPT !.dc_val =
                         DcCell(c, n, 0, 0) :>
                             (IF dc < 0 THEN 0
                              ELSE IF dc > 2047 /\ "DC_CLIP" \notin c.workaround_bugs
                              THEN 2047 ELSE dc) @@ @]]

\* mpeg4_decode_dc after the size code (lines 992-1014); codec_tag is not
\* 3IV1
DecodeDcLevel(st, n, code) ==
    LET level == IF code = 0 THEN 0 ELSE get_xbits_value(st.gb, code)
        g1 == skip_bits(st.gb, code)
        marked == code > 8
        g2 == IF marked THEN skip_bits(g1, 1) ELSE g1
        wrap == IF n < 4 THEN 2 * st.mb_width + 1 ELSE st.mb_stride
    IN  IF /\ marked /\ show_bits(g1, 1) = 0
           /\ st.err_recognition \cap {"BITSTREAM", "COMPLIANT"} # {}
        THEN [ret |-> AVERROR_INVALIDDATA, s |-> [st EXCEPT !.gb = g2], dc |-> 0]
        ELSE mpeg4_get_level_dc([st EXCEPT !.gb = g2], n,
                 mpeg4_pred_dc(st, n, DcWindow(st, n, wrap), wrap).pred, level)

\* mpeg4_decode_dc: ret is the quantised DC or an error, s the context with
\* the reader behind the code and dc_val written
mpeg4_decode_dc(st, n) ==
    LET v == get_vlc2(st.gb, IF n < 4 THEN dc_lum ELSE dc_chrom)
    IN  IF v.code < 0
        THEN [ret |-> AVERROR_INVALIDDATA, s |-> [st EXCEPT !.gb = v.gb], dc |-> 0]
        ELSE DecodeDcLevel([st EXCEPT !.gb = v.gb], n, v.code)

\* the loop over the six blocks (lines 1071-1082, 1263-1274): it ends at the
\* first negative result
RECURSIVE DecodeSixDc(_, _)
DecodeSixDcNext(d, i) == IF d.ret < 0 THEN d ELSE DecodeSixDc(d.s, i + 1)

DecodeSixDc(st, i) ==
    IF i = 6 THEN [ret |-> 0, s |-> st, dc |-> 0]
    ELSE DecodeSixDcNext(mpeg4_decode_dc(st, i), i)

\* ff_h263_decode_motion as far as the reader and the error value 0xffff go
h263_decode_motion(g, f_code) ==
    LET v == get_vlc2(g, mv_vlc)
    IN  IF v.code < 0 THEN [ok |-> FALSE, gb |-> v.gb]
        ELSE IF v.code = 0 THEN [ok |-> TRUE, gb |-> v.gb]
        ELSE [ok |-> TRUE, gb |-> skip_bits(v.gb, 1 + (f_code - 1))]

\* n motion vector components one after the other
RECURSIVE DecodeMotions(_, _, _)
DecodeMotionsNext(d, f_code, n) ==
    IF ~d.ok THEN d ELSE DecodeMotions(d.gb, f_code, n - 1)

DecodeMotions(g, f_code, n) ==
    IF n = 0 THEN [ok |-> TRUE, gb |-> g]
    ELSE DecodeMotionsNext(h263_decode_motion(g, f_code), f_code, n)

MbXy(st) == st.mb_x + st.mb_y * st.mb_stride

IS_INTRA(a) == "INTRA" \in a

IS_SKIP(a) == "SKIP" \in a

IsGmc(st) == st.pict_type = AV_PICTURE_TYPE_S /\ st.vol_sprite_usage = GMC_SPRITE

\* the start of a turn of either pass (lines 1041-1044, 1230-1233); visited
\* lists the positions the pass has entered
PartitionEnter(st) ==
    [st EXCEPT !.count = @ + 1,
               !.visited = Append(@, <<st.mb_x, st.mb_y>>),
               !.first_slice_line =
                   IF st.mb_x = st.resync_mb_x /\ st.mb_y = st.resync_mb_y + 1
                   THEN 0 ELSE @]

PartitionFail(st, g) ==
    [st EXCEPT !.gb = g, !.running = FALSE, !.ret = AVERROR_INVALIDDATA]

\* the optional quantiser change (lines 1065-1066, 1259-1260, 1291-1292)
PartitionDquant(st, g, coded) ==
    IF coded
    THEN [st EXCEPT !.qscale = ff_set_qscale(@ + quant_tab[show_bits(g, 2) + 1]),
                    !.gb = skip_bits(g, 2)]
    ELSE [st EXCEPT !.gb = g]

\* the do-while of lines 1049-1059
RECURSIVE PartitionAIntraMcbpc(_)
PartitionAIntraMcbpcRead(v) ==
    IF v.code < 0 THEN [end |-> "error", skip |-> FALSE, cbpc |-> 0, gb |-> v.gb]
    ELSE IF v.code = 8 THEN PartitionAIntraMcbpc(v.gb)
    ELSE [end |-> "mb", skip |-> FALSE, cbpc |-> v.code, gb |-> v.gb]

PartitionAIntraMcbpc(g) ==
    IF show_bits(g, 19) = DC_MARKER
    THEN [end |-> "marker", skip |-> FALSE, cbpc |-> 0, gb |-> g]
    ELSE PartitionAIntraMcbpcRead(get_vlc2(g, intra_MCBPC_vlc))

\* lines 1071-1083
PartitionAIntraDc(d) ==
    IF d.ret < 0 THEN [d.s EXCEPT !.running = FALSE, !.ret = d.ret] ELSE d.s

\* line 1068, then the six DC codes
PartitionAIntraTail(st) ==
    PartitionAIntraDc(
        DecodeSixDc([st EXCEPT !.qscale_table[MbXy(st)] = st.qscale], 0))

\* a macroblock of an I picture in the first partition (lines 1046-1083)
PartitionAIntra(st, m) ==
    IF m.end = "marker"
    THEN [st EXCEPT !.running = FALSE, !.ret = st.count - 1]
    ELSE IF m.end = "error" THEN PartitionFail(st, m.gb)
    ELSE PartitionAIntraTail(
             PartitionDquant([st EXCEPT !.cbp_table[MbXy(st)] = m.cbpc % 4,
                                        !.mb_type[MbXy(st)] = {"INTRA"}],
                             m.gb, (m.cbpc \div 4) % 2 = 1))

\* try_again (lines 1089-1131): the marker, the skip bit, the mode code
RECURSIVE PartitionAInterMcbpc(_)
PartitionAInterMcbpcRead(v) ==
    IF v.code < 0 THEN [end |-> "error", skip |-> FALSE, cbpc |-> 0, gb |-> v.gb]
    ELSE IF v.code = 20 THEN PartitionAInterMcbpc(v.gb)
    ELSE [end |-> "mb", skip |-> FALSE, cbpc |-> v.code, gb |-> v.gb]

PartitionAInterMcbpc(g) ==
    IF show_bits(g, 17) = MOTION_MARKER
    THEN [end |-> "marker", skip |-> FALSE, cbpc |-> 0, gb |-> g]
    ELSE IF show_bits(g, 17) \div 65536 = 1
    THEN [end |-> "mb", skip |-> TRUE, cbpc |-> 0, gb |-> skip_bits(g, 1)]
    ELSE PartitionAInterMcbpcRead(get_vlc2(skip_bits(g, 1), inter_MCBPC_vlc))

\* the vectors of a macroblock with n components (lines 1161-1203)
PartitionAMotion(st, d, type) ==
    IF ~d.ok THEN PartitionFail(st, d.gb)
    ELSE [st EXCEPT !.gb = d.gb, !.mb_type[MbXy(st)] = type]

\* lines 1151-1204: mcsel, then one vector, the sprite vector or four
PartitionAInterMv(st, g, cbpc) ==
    IF (cbpc \div 16) % 2 = 0
    THEN IF IsGmc(st) /\ show_bits(g, 1) = 1
         THEN [st EXCEPT !.gb = skip_bits(g, 1),
                         !.mb_type[MbXy(st)] = {"16x16", "GMC", "FORWARD_MV"}]
         ELSE PartitionAMotion(st,
                  DecodeMotions(skip_bits(g, IF IsGmc(st) THEN 1 ELSE 0),
                                st.f_code, 2),
                  {"16x16", "FORWARD_MV"})
    ELSE PartitionAMotion([st EXCEPT !.mb_type[MbXy(st)] = {"8x8", "FORWARD_MV"}],
                          DecodeMotions(g, st.f_code, 8), {"8x8", "FORWARD_MV"})

\* a macroblock of a P or S picture in the first partition (lines 1084-1205)
PartitionAInter(st, m) ==
    IF m.end = "marker"
    THEN [st EXCEPT !.running = FALSE, !.ret = st.count - 1]
    ELSE IF m.end = "error" THEN PartitionFail(st, m.gb)
    ELSE IF m.skip
    THEN [st EXCEPT !.gb = m.gb,
                    !.mb_type[MbXy(st)] =
                        {"SKIP", "16x16", "FORWARD_MV"}
                            \cup (IF IsGmc(st) THEN {"GMC"} ELSE {})]
    ELSE IF (m.cbpc \div 4) % 2 = 1
    THEN [st EXCEPT !.gb = m.gb,
                    !.cbp_table[MbXy(st)] = (m.cbpc % 4) + 8 * ((m.cbpc \div 8) % 2),
                    !.mb_type[MbXy(st)] = {"INTRA"}]
    ELSE PartitionAInterMv(
             [st EXCEPT !.cbp_table[MbXy(st)] = (m.cbpc % 4) + 8 * ((m.cbpc \div 8) % 2)],
             m.gb, m.cbpc)

PartitionAMb(st) ==
    IF st.pict_type = AV_PICTURE_TYPE_I
    THEN PartitionAIntra(st, PartitionAIntraMcbpc(st.gb))
    ELSE PartitionAInter(st, PartitionAInterMcbpc(st.gb))

\* the end of a turn: the increment of the inner for; done lists the
\* positions whose turn was completed
PartitionATurn(st) ==
    IF ~st.running THEN st
    ELSE [st EXCEPT !.done = Append(@, <<st.mb_x, st.mb_y>>), !.mb_x = @ + 1]

\* one step of the two nested for loops of lines 1034-1209
PartitionAStep(st) ==
    IF st.mb_y >= st.mb_height THEN [st EXCEPT !.running = FALSE, !.ret = st.count]
    ELSE IF st.mb_x >= st.mb_width THEN [st EXCEPT !.mb_x = 0, !.mb_y = @ + 1]
    ELSE PartitionATurn(PartitionAMb(PartitionEnter(st)))

RECURSIVE PartitionALoop(_)
PartitionALoop(st) == IF st.running THEN PartitionALoop(PartitionAStep(st)) ELSE st

\* mpeg4_decode_partition_a: ret is the number of macroblocks decoded or an
\* error
mpeg4_decode_partition_a(st) ==
    PartitionALoop([st EXCEPT !.first_slice_line = 1, !.count = 0,
                              !.visited = <<>>, !.done = <<>>,
                              !.running = TRUE, !.ret = 0, !.start = st.gb])

\* the second partition of an intra macroblock of a P or S picture, from the
\* quantiser change on (lines 1259-1278)
PartitionBIntraDc(d, cbpy, ac_pred) ==
    IF d.ret < 0 THEN [d.s EXCEPT !.running = FALSE, !.ret = d.ret]
    ELSE [d.s EXCEPT !.cbp_table[MbXy(d.s)] = (@ % 4) + 4 * cbpy,
                    !.mb_type[MbXy(d.s)] =
                        @ \cup (IF ac_pred = 1 THEN {"ACPRED"} ELSE {})]

PartitionBIntraTail(st, cbpy, ac_pred) ==
    PartitionBIntraDc(
        DecodeSixDc([st EXCEPT !.qscale_table[MbXy(st)] = st.qscale], 0),
        cbpy, ac_pred)

\* after ac_pred and cbpy of an intra macroblock (lines 1238-1245, 1253-1278)
PartitionBIntra(st, v, ac_pred) ==
    IF v.code < 0 THEN PartitionFail(st, v.gb)
    ELSE IF st.pict_type = AV_PICTURE_TYPE_I
    THEN [st EXCEPT !.gb = v.gb,
                    !.cbp_table[MbXy(st)] = (@ % 4) + 4 * v.code,
                    !.mb_type[MbXy(st)] =
                        @ \cup (IF ac_pred = 1 THEN {"ACPRED"} ELSE {})]
    ELSE PartitionBIntraTail(
             PartitionDquant(st, v.gb, (st.cbp_table[MbXy(st)] \div 8) % 2 = 1),
             v.code, ac_pred)

\* lines 1293-1296
PartitionBInterStore(st, cbpy) ==
    [st EXCEPT !.qscale_table[MbXy(st)] = st.qscale,
               !.cbp_table[MbXy(st)] = (@ % 4) + 4 * (15 - cbpy)]

\* after cbpy of an inter macroblock (lines 1283-1296)
PartitionBInter(st, v) ==
    IF v.code < 0 THEN PartitionFail(st, v.gb)
    ELSE PartitionBInterStore(
             PartitionDquant(st, v.gb, (st.cbp_table[MbXy(st)] \div 8) % 2 = 1),
             v.code)

\* a macroblock in the second partition (lines 1235-1298)
PartitionBMb(st) ==
    IF st.pict_type = AV_PICTURE_TYPE_I \/ IS_INTRA(st.mb_type[MbXy(st)])
    THEN PartitionBIntra(st, get_vlc2(skip_bits(st.gb, 1), cbpy_vlc),
                         show_bits(st.gb, 1))
    ELSE IF IS_SKIP(st.mb_type[MbXy(st)])
    THEN [st EXCEPT !.qscale_table[MbXy(st)] = st.qscale,
                    !.cbp_table[MbXy(st)] = 0]
    ELSE PartitionBInter(st, get_vlc2(st.gb, cbpy_vlc))

\* the increment of the inner for
PartitionBTurn(st) == IF ~st.running THEN st ELSE [st EXCEPT !.mb_x = @ + 1]

\* the start of the second pass (lines 1223-1225)
PartitionBStart_KeepPosition(st) ==
    [st EXCEPT !.first_slice_line = 1, !.count = 0, !.visited = <<>>,
               !.running = TRUE, !.ret = 0, !.start = st.gb]

PartitionBStart(st) ==
    [st EXCEPT !.mb_x = st.resync_mb_x, !.mb_y = st.resync_mb_y,
               !.first_slice_line = 1, !.count = 0, !.visited = <<>>,
               !.running = TRUE, !.ret = 0, !.start = st.gb]

\* one step of the two nested for loops of lines 1225-1303
PartitionBStep(st, mb_count) ==
    IF st.count >= mb_count THEN [st EXCEPT !.running = FALSE, !.ret = 0]
    ELSE IF st.mb_x >= st.mb_width THEN [st EXCEPT !.mb_x = 0, !.mb_y = @ + 1]
    ELSE PartitionBTurn(PartitionBMb(PartitionEnter(st)))

RECURSIVE PartitionBLoop(_, _)
PartitionBLoop(st, mb_count) ==
    IF st.running THEN PartitionBLoop(PartitionBStep(st, mb_count), mb_count) ELSE st

mpeg4_decode_partition_b(st, mb_count) == PartitionBLoop(PartitionBStart(st), mb_count)

\* the stuffing in front of the marker (lines 1336-1337, 1345-1346)
RECURSIVE PartitionSkipStuffing(_, _)
PartitionSkipStuffing(g, n) ==
    IF show_bits(g, n) = 1 THEN PartitionSkipStuffing(skip_bits(g, n), n) ELSE g

\* ff_er_add_slice as the record of its arguments
ErSlice(st, endx, status) ==
    [startx |-> st.resync_mb_x, starty |-> st.resync_mb_y,
     endx |-> endx, endy |-> st.mb_y, status |-> status]

PartitionsResult(r, a, b, ran_b, er) ==
    [ret |-> r, s |-> b, mb_num |-> a.ret, done_a |-> a.done,
     visited_a |-> a.visited, ran_b |-> ran_b,
     end_a |-> a.gb, start_b |-> b.start,
     cbp_a |-> a.cbp_table, qscale_a |-> a.qscale_table,
     visited_b |-> IF ran_b THEN b.visited ELSE <<>>,
     ret_b |-> IF ran_b THEN b.ret ELSE 0, er |-> er]

\* lines 1357-1369
PartitionsSecond(a, b, er) ==
    PartitionsResult(b.ret, a, b, TRUE,
        IF a.pict_type # AV_PICTURE_TYPE_P THEN er
        ELSE IF b.ret < 0 THEN Append(er, ErSlice(b, b.mb_x, "DC_ERROR"))
        ELSE Append(er, ErSlice(b, b.mb_x - 1, "DC_END")))

PartitionsMarker_Unchecked(a, a1, bits, marker) ==
    PartitionsSecond(a,
        mpeg4_decode_partition_b([a1 EXCEPT !.gb = skip_bits(@, bits)], a.ret),
        <<ErSlice(a, a.mb_x - 1, "PART_A_END")>>)

\* lines 1335-1357: the marker, then the second pass; a1 is the context
\* with the reader behind the stuffing
PartitionsMarker(a, a1, bits, marker) ==
    IF show_bits(a1.gb, bits) # marker
    THEN PartitionsResult(AVERROR_INVALIDDATA, a,
                          [a1 EXCEPT !.gb = skip_bits(@, bits)], FALSE, <<>>)
    ELSE PartitionsSecond(a,
             mpeg4_decode_partition_b([a1 EXCEPT !.gb = skip_bits(@, bits)], a.ret),
             <<ErSlice(a, a.mb_x - 1, "PART_A_END")>>)

\* lines 1319-1333, on the context the first pass left
PartitionsFirst(a) ==
    IF a.ret <= 0
    THEN PartitionsResult(IF a.ret # 0 THEN a.ret ELSE AVERROR_INVALIDDATA,
                          a, a, FALSE, <<ErSlice(a, a.mb_x, "PART_A_ERROR")>>)
    ELSE IF a.resync_mb_x + a.resync_mb_y * a.mb_width + a.ret > a.mb_num
    THEN PartitionsResult(AVERROR_INVALIDDATA, a, a, FALSE,
                          <<ErSlice(a, a.mb_x, "PART_A_ERROR")>>)
    ELSE IF a.pict_type = AV_PICTURE_TYPE_I
    THEN PartitionsMarker(a, [a EXCEPT !.mb_num_left = a.ret,
                                       !.gb = PartitionSkipStuffing(@, 9)],
                          19, DC_MARKER)
    ELSE PartitionsMarker(a, [a EXCEPT !.mb_num_left = a.ret,
                                       !.gb = PartitionSkipStuffing(@, 10)],
                          17, MOTION_MARKER)

ff_mpeg4_decode_partitions(st) == PartitionsFirst(mpeg4_decode_partition_a(st))


(***************************************************************************)
(* SpecPartitions: ff_mpeg4_decode_partitions on slices of up to           *)
(* MaxSliceMbs macroblocks of an I, P or S picture, entered at every       *)
(* resync position of the frame, with or without the partition marker and  *)
(* with the second partition intact or damaged from one macroblock on.     *)
(***************************************************************************)
MaxSliceMbs == 3

\* six DC codes: luminance sizes 1, 0, 0, 0 and chrominance sizes 0, 1
SixDcBits == <<1, 1, 1>> \o <<0, 1, 1>> \o <<0, 1, 1>> \o <<0, 1, 1>>
                 \o <<1, 1>> \o <<1, 0, 0>>

\* six DC codes, the first one of size 8 and 129 below zero
LowDcBits == <<0, 0, 0, 0, 0, 0, 1>> \o Bits(126, 8) \o <<0, 1, 1>> \o <<0, 1, 1>>
                 \o <<0, 1, 1>> \o <<1, 1>> \o <<1, 1>>

MbKinds(pict_type) ==
    CASE pict_type = AV_PICTURE_TYPE_I ->
             {"intra", "intra_q", "bad", "bad_dc", "low_dc"}
      [] pict_type = AV_PICTURE_TYPE_P ->
             {"skip", "inter_q", "intra", "stuffed"}
      [] OTHER -> {"skip", "gmc", "inter", "inter4v"}

\* the first partition of a macroblock
PartitionABits(pict_type, kind) ==
    IF pict_type = AV_PICTURE_TYPE_I
    THEN CASE kind = "intra"   -> <<1>> \o SixDcBits
           [] kind = "intra_q" -> <<0, 0, 0, 1>> \o <<1, 0>> \o SixDcBits
           [] kind = "bad"     -> Rep(0, 9)
           [] kind = "bad_dc"  -> <<1>> \o Rep(0, 12)
           [] kind = "low_dc"  -> <<1>> \o LowDcBits
    ELSE CASE kind = "skip"    -> <<1>>
           [] kind = "inter_q" -> <<0>> \o <<0, 1, 1>> \o <<1>> \o <<0, 1, 0>>
           [] kind = "intra"   -> <<0>> \o <<0, 0, 0, 1, 1>>
           [] kind = "inter4v" -> <<0>> \o <<0, 1, 0>> \o Rep(1, 8)
           [] kind = "stuffed" -> <<0>> \o Bits(1, 9) \o <<1>>
           [] kind = "gmc"     -> <<0>> \o <<1>> \o <<1>>
           [] kind = "inter"   -> <<0>> \o <<1>> \o <<0>> \o <<1>> \o <<0, 1, 1>>

\* the second partition of a macroblock
PartitionBBits(pict_type, kind) ==
    IF pict_type = AV_PICTURE_TYPE_I
    THEN CASE kind = "intra"   -> <<0>> \o <<1, 1>>
           [] kind = "intra_q" -> <<1>> \o <<0, 0, 1, 1>>
           [] kind = "low_dc"  -> <<1>> \o <<1, 1>>
           [] OTHER            -> <<>>
    ELSE CASE kind = "inter_q" -> <<1, 1>> \o <<0, 0>>
           [] kind = "intra"   -> <<1>> \o <<1, 1>> \o SixDcBits
           [] kind = "inter4v" -> <<0, 0, 1, 1>>
           [] kind \in {"gmc", "inter"} -> <<1, 1>>
           [] OTHER            -> <<>>

RECURSIVE PartitionASliceBits(_, _)
PartitionASliceBits(pict_type, kinds) ==
    IF kinds = <<>> THEN <<>>
    ELSE PartitionABits(pict_type, Head(kinds))
             \o PartitionASliceBits(pict_type, Tail(kinds))

\* the second partition up to the macroblock the damage begins at (0: none)
RECURSIVE PartitionBSliceBits(_, _, _, _)
PartitionBSliceBits(pict_type, kinds, x, damage) ==
    IF x > Len(kinds) THEN <<>>
    ELSE IF x = damage THEN Rep(0, 8)
    ELSE PartitionBBits(pict_type, kinds[x])
             \o PartitionBSliceBits(pict_type, kinds, x + 1, damage)

PartitionMarkerBits(pict_type, marker) ==
    CASE marker = "none" -> <<>>
      [] marker = "marker" ->
             IF pict_type = AV_PICTURE_TYPE_I THEN Bits(DC_MARKER, 19)
             ELSE Bits(MOTION_MARKER, 17)
      [] marker = "stuffed" ->
             IF pict_type = AV_PICTURE_TYPE_I THEN Bits(1, 9) \o Bits(DC_MARKER, 19)
             ELSE Bits(1, 10) \o Bits(MOTION_MARKER, 17)

SliceBits(pict_type, kinds, marker, damage) ==
    PartitionASliceBits(pict_type, kinds)
        \o PartitionMarkerBits(pict_type, marker)
        \o PartitionBSliceBits(pict_type, kinds, 1, damage)

SliceKinds(pict_type) ==
    UNION {[1..n -> MbKinds(pict_type)] : n \in 0..MaxSliceMbs}

\* the context at the start of a slice: the position is the resync position
PartitionCtx(pict_type, x, y, err) ==
    [pict_type |-> pict_type,
     vol_sprite_usage |-> IF pict_type = AV_PICTURE_TYPE_S THEN GMC_SPRITE ELSE 0,
     f_code |-> 1, qscale |-> 2,
     mb_x |-> x, mb_y |-> y, resync_mb_x |-> x, resync_mb_y |-> y,
     mb_width |-> MbWidth, mb_height |-> MbHeight, mb_stride |-> MbWidth + 1,
     mb_num |-> MbWidth * MbHeight, mb_num_left |-> 0, first_slice_line |-> 0,
     err_recognition |-> err, workaround_bugs |-> {},
     dc_val |-> [p \in ({0} \X (0..(2 * MbWidth - 1)) \X (0..(2 * MbHeight - 1)))
                        \cup ({1, 2} \X (0..(MbWidth - 1)) \X (0..(MbHeight - 1)))
                    |-> 1024],
     mb_type |-> [xy \in 0..((MbWidth + 1) * MbHeight - 1) |-> {}],
     cbp_table |-> [xy \in 0..((MbWidth + 1) * MbHeight - 1) |-> 0],
     qscale_table |-> [xy \in 0..((MbWidth + 1) * MbHeight - 1) |-> 0]]

\* the context with the reader and the locals of the passes
PartitionState(c, g) ==
    c @@ [gb |-> g, start |-> g, count |-> 0, visited |-> <<>>, done |-> <<>>,
          running |-> FALSE, ret |-> 0]

InitPartitions ==
    /\ \E pict_type \in {AV_PICTURE_TYPE_I, AV_PICTURE_TYPE_P, AV_PICTURE_TYPE_S},
          x \in 0..(MbWidth - 1), y \in 0..(MbHeight - 1),
          err \in {{}, {"BITSTREAM"}} :
          ctx = PartitionCtx(pict_type, x, y, err)
    /\ gb = Reader(<<>>)
    /\ ret = 0
    /\ pc = "decode_slice"
    /\ ev = NoEv
    /\ calls = 0

\* ff_mpeg4_decode_partitions on a slice
DecodePartitions ==
    /\ pc = "decode_slice"
    /\ \E kinds \in SliceKinds(ctx.pict_type), marker \in {"none", "marker", "stuffed"} :
          \E damage \in 0..Len(kinds) :
              \E r \in {ff_mpeg4_decode_partitions(
                            PartitionState(ctx,
                                Reader(SliceBits(ctx.pict_type, kinds, marker, damage))))} :
                  /\ ctx' = [f \in DOMAIN ctx |-> r.s[f]]
                  /\ gb' = r.s.gb
                  /\ ret' = r.ret
                  /\ ev' = [kinds |-> kinds, marker |-> marker, damage |-> damage,
                            entry |-> <<ctx.mb_x, ctx.mb_y>>,
                            mb_num |-> r.mb_num, done_a |-> r.done_a,
                            visited_a |-> r.visited_a, ran_b |-> r.ran_b,
                            visited_b |-> r.visited_b, ret_b |-> r.ret_b,
                            end_a |-> r.end_a, start_b |-> r.start_b,
                            cbp_a |-> r.cbp_a, qscale_a |-> r.qscale_a,
                            er |-> r.er]
    /\ pc' = "decode_partitions"
    /\ UNCHANGED calls

NextPartitions == DecodePartitions

SpecPartitions == InitPartitions /\ [][NextPartitions]_vars

\* the raster position n macroblocks after position p
RasterAfter(p, n) ==
    <<(p[1] + p[2] * MbWidth + n) % MbWidth, (p[1] + p[2] * MbWidth + n) \div MbWidth>>

\* seq is a run of consecutive raster positions that starts at p
RasterRun(seq, p) == \A x \in 1..Len(seq) : seq[x] = RasterAfter(p, x - 1)

\* C20 as stated: entered at the resync position, the second pass visits
\* exactly the macroblock positions the first pass completed before the
\* partition marker, in the same raster order and the same number of them,
\* starting at the resync position.
C20_SecondPassVisitsAll ==
    (pc = "decode_partitions" /\ ev.ran_b
        /\ ev.entry = <<ctx.resync_mb_x, ctx.resync_mb_y>>)
        => /\ ev.visited_b = ev.done_a
           /\ Len(ev.visited_b) = ev.mb_num
           /\ RasterRun(ev.visited_b, ev.entry)

\* C20: entered at the resync position, a second pass that returns without
\* error has visited exactly the macroblock positions the first pass
\* completed before the partition marker, in the same raster order and the
\* same number of them, starting at the resync position; a second pass that
\* meets an invalid code stops at that macroblock, having visited the first
\* of these positions up to it.
C20_SecondPassVisitsCompleted ==
    (pc = "decode_partitions" /\ ev.ran_b
        /\ ev.entry = <<ctx.resync_mb_x, ctx.resync_mb_y>>)
        => /\ Len(ev.done_a) = ev.mb_num
           /\ RasterRun(ev.done_a, ev.entry)
           /\ ev.ret_b >= 0 => ev.visited_b = ev.done_a
           /\ ev.ret_b < 0 =>
                  /\ Len(ev.visited_b) \in 1..Len(ev.done_a)
                  /\ ev.visited_b = SubSeq(ev.done_a, 1, Len(ev.visited_b))
                  /\ ev.visited_b[Len(ev.visited_b)] = <<ctx.mb_x, ctx.mb_y>>

\* a slice of three macroblocks with a stuffing code that crosses the end
\* of a row is decoded by both passes
C20_Witness ==
    /\ pc = "decode_partitions"
    /\ ret = 0
    /\ ev.ran_b
    /\ Len(ev.kinds) = 3
    /\ \E x \in 1..3 : ev.kinds[x] = "stuffed"
    /\ ev.visited_b = ev.done_a
    /\ Len(ev.visited_b) = 3
    /\ ev.visited_b[1] = ev.entry
    /\ ev.visited_b[3][2] = ev.entry[2] + 1


\* the reader position behind the run of n-bit stuffing codes at position i
RECURSIVE AfterStuffingCodes(_, _, _)
AfterStuffingCodes(buf, i, n) ==
    IF BitsValue(buf, i, n) = 1 THEN AfterStuffingCodes(buf, i + n, n) ELSE i

MarkerLength == IF ctx.pict_type = AV_PICTURE_TYPE_I THEN 19 ELSE 17

MarkerValue == IF ctx.pict_type = AV_PICTURE_TYPE_I THEN DC_MARKER ELSE MOTION_MARKER

\* where the marker is looked for: behind the stuffing that follows the
\* first partition
MarkerPosition ==
    AfterStuffingCodes(gb.buf, ev.end_a.index,
                       IF ctx.pict_type = AV_PICTURE_TYPE_I THEN 9 ELSE 10)

\* C21: the second partition is started only after a first partition of at
\* least one macroblock and the partition marker right behind the optional
\* stuffing; when the marker is absent the call returns AVERROR_INVALIDDATA
\* and no second pass touches cbp_table or qscale_table.
C21_SecondPartitionNeedsMarker ==
    pc = "decode_partitions" =>
        /\ ev.ran_b =>
               /\ ev.mb_num >= 1
               /\ BitsValue(gb.buf, MarkerPosition, MarkerLength) = MarkerValue
               /\ ev.start_b.index = MarkerPosition + MarkerLength
        /\ (ev.mb_num >= 1
               /\ BitsValue(gb.buf, MarkerPosition, MarkerLength) # MarkerValue) =>
               /\ ret = AVERROR_INVALIDDATA
               /\ ~ev.ran_b
               /\ ev.visited_b = <<>>
               /\ ctx.cbp_table = ev.cbp_a
               /\ ctx.qscale_table = ev.qscale_a

\* two macroblocks of a P picture are decoded by the first pass, which has
\* written cbp_table, and no marker follows
C21_Witness ==
    /\ pc = "decode_partitions"
    /\ ctx.pict_type = AV_PICTURE_TYPE_P
    /\ ev.mb_num = 2
    /\ ev.kinds = <<"inter_q", "intra">>
    /\ ev.marker = "none"
    /\ ret = AVERROR_INVALIDDATA
    /\ ~ev.ran_b
    /\ \E xy \in DOMAIN ctx.cbp_table : ctx.cbp_table[xy] # 0


(***************************************************************************)
(* Row progress of the next picture (lines 1884-1921, 2093-2115).  A call  *)
(* of mpeg4_decode_mb on a macroblock of a B picture is the sequence of    *)
(* its waits on next_pic's progress and of its reads of                    *)
(* next_pic.mbskip_table, with the value it returns.                       *)
(***************************************************************************)
SLICE_OK == 0

SLICE_END == -2

SLICE_NOEND == -3

\* the number of the macroblock after the current one, in raster order
MbNumberAfter(c) == c.mb_x + c.mb_y * c.mb_width + 1

\* lines 1899-1911: the wait at the start of a row, then the read of the
\* skip flag of the macroblock
DecodeMbBStart(c) ==
    (IF c.mb_x = 0 THEN <<[op |-> "await", row |-> c.mb_y]>> ELSE <<>>)
        \o <<[op |-> "read", index |-> c.mb_y * c.mb_stride + c.mb_x]>>

\* lines 2102-2109: the wait and the read for the macroblock after the
\* current one
DecodeMbBNext(c, delta) ==
    << [op |-> "await",
        row |-> IF c.mb_x + delta >= c.mb_width
                THEN FFMIN(c.mb_y + 1, c.mb_height - 1) ELSE c.mb_y],
       [op |-> "read", index |-> c.mb_x + c.mb_y * c.mb_stride + delta] >>

\* the end of slice check (lines 2093-2115); next is what mpeg4_is_resync
\* returned and next_skipped the skip flag read at line 2108
DecodeMbEnd(c, next, next_skipped) ==
    IF next = 0 THEN [ret |-> SLICE_OK, sync |-> <<>>]
    ELSE IF MbNumberAfter(c) > next /\ "AGGRESSIVE" \in c.err_recognition
    THEN [ret |-> AVERROR_INVALIDDATA, sync |-> <<>>]
    ELSE IF MbNumberAfter(c) >= next THEN [ret |-> SLICE_END, sync |-> <<>>]
    ELSE IF c.pict_type = AV_PICTURE_TYPE_B
    THEN [ret |-> IF next_skipped # 0 THEN SLICE_OK ELSE SLICE_END,
          sync |-> DecodeMbBNext(c, IF c.mb_x + 1 = c.mb_width THEN 2 ELSE 1)]
    ELSE [ret |-> SLICE_END, sync |-> <<>>]

DecodeMbBResult(start, e) == [ret |-> e.ret, sync |-> start \o e.sync]

\* mpeg4_decode_mb on a macroblock of a B picture: skipped is the flag read
\* at line 1911 and body_ok tells whether the codes of a macroblock that is
\* not skipped (lines 1921-2060) are valid
mpeg4_decode_mb_b(c, skipped, body_ok, next, next_skipped) ==
    IF skipped = 0 /\ ~body_ok
    THEN [ret |-> AVERROR_INVALIDDATA, sync |-> DecodeMbBStart(c)]
    ELSE DecodeMbBResult(DecodeMbBStart(c), DecodeMbEnd(c, next, next_skipped))

\* the highest row waited for once sync is done, awaited being the highest
\* before it
RECURSIVE AwaitedAfter(_, _)
AwaitedAfter(sync, awaited) ==
    IF sync = <<>> THEN awaited
    ELSE AwaitedAfter(Tail(sync),
                      IF Head(sync).op = "await" THEN FFMAX(awaited, Head(sync).row)
                      ELSE awaited)

\* the reads of sync, each with the highest row waited for before it
RECURSIVE ReadsOf(_, _)
ReadsOf(sync, awaited) ==
    IF sync = <<>> THEN <<>>
    ELSE IF Head(sync).op = "await"
    THEN ReadsOf(Tail(sync), FFMAX(awaited, Head(sync).row))
    ELSE <<[index |-> Head(sync).index, awaited |-> awaited]>>
             \o ReadsOf(Tail(sync), awaited)

\* ff_thread_progress_await returns once the progress has reached the row
AwaitsPass(sync, progress) ==
    \A x \in 1..Len(sync) : sync[x].op = "await" => sync[x].row <= progress

(***************************************************************************)
(* SpecProgress: one thread decodes the slices of a B picture of MbWidth x *)
(* MbHeight macroblocks while another thread decodes the next picture and  *)
(* reports its rows.  A slice ends at a resync marker or an error and the  *)
(* next slice starts where its video packet header says.                   *)
(***************************************************************************)
ProgressPacketStreams ==
    { PacketStream(17, <<>>, mbn, av_log2(MbWidth * MbHeight - 1) + 1, 9, 0) :
          mbn \in 0..(MbWidth * MbHeight) }

InitProgress ==
    /\ \E err \in {{}, {"AGGRESSIVE"}} :
          ctx = [CtxInit EXCEPT !.pict_type = AV_PICTURE_TYPE_B,
                                !.f_code = 1, !.b_code = 1,
                                !.width = 16 * MbWidth, !.height = 16 * MbHeight,
                                !.mb_width = MbWidth, !.mb_height = MbHeight,
                                !.mb_num = MbWidth * MbHeight,
                                !.qscale = 3, !.chroma_qscale = 3]
                @@ [mb_stride |-> MbWidth + 1, err_recognition |-> err,
                    progress |-> -1, awaited |-> -1]
    /\ gb = Reader(<<>>)
    /\ ret = 0
    /\ pc = "decode_mb"
    /\ ev = [reads |-> <<>>]
    /\ calls = 0

\* the thread of the next picture reports a row
ReportProgress ==
    /\ ctx.progress < MbHeight - 1
    /\ ctx' = [ctx EXCEPT !.progress = @ + 1]
    /\ UNCHANGED <<gb, ret, pc, ev, calls>>

\* mpeg4_decode_mb on the current macroblock; after SLICE_OK the slice loop
\* goes on to the next macroblock
DecodeMbB ==
    /\ pc = "decode_mb"
    /\ \E skipped \in 0..1, body_ok \in BOOLEAN, next_skipped \in 0..1,
          next \in {-1} \cup 0..(MbWidth * MbHeight) :
          \E r \in {mpeg4_decode_mb_b(ctx, skipped, body_ok, next, next_skipped)} :
              /\ AwaitsPass(r.sync, ctx.progress)
              /\ ret' = r.ret
              /\ ev' = [reads |-> ReadsOf(r.sync, ctx.awaited)]
              /\ ctx' = [ctx EXCEPT
                            !.awaited = AwaitedAfter(r.sync, @),
                            !.mb_x = IF r.ret # SLICE_OK THEN @
                                     ELSE IF @ + 1 < ctx.mb_width THEN @ + 1 ELSE 0,
                            !.mb_y = IF r.ret = SLICE_OK /\ ctx.mb_x + 1 >= ctx.mb_width
                                     THEN @ + 1 ELSE @]
              /\ pc' = IF r.ret # SLICE_OK THEN "slice_end"
                       ELSE IF MbNumberAfter(ctx) >= ctx.mb_num THEN "frame_end"
                       ELSE "decode_mb"
    /\ UNCHANGED <<gb, calls>>

\* the next slice: ff_mpeg4_decode_video_packet_header sets the position
ResyncSlice ==
    /\ pc = "slice_end"
    /\ \E b \in ProgressPacketStreams :
          \E r \in {ff_mpeg4_decode_video_packet_header(ctx, Reader(b))} :
              /\ ctx' = r.ctx
              /\ gb' = r.gb
              /\ ret' = r.ret
              /\ pc' = IF r.ret < 0 THEN "slice_end" ELSE "decode_mb"
    /\ ev' = [reads |-> <<>>]
    /\ UNCHANGED calls

NextProgress == ReportProgress \/ DecodeMbB \/ ResyncSlice

SpecProgress == InitProgress /\ [][NextProgress]_vars

\* C22: every read of next_pic.mbskip_table for a macroblock of row r comes
\* after a wait, by the same thread, on next_pic's progress for row r or a
\* later row, however the macroblock position was reached.
C22_ReadAfterAwait ==
    \A x \in 1..Len(ev.reads) :
        ev.reads[x].index \div ctx.mb_stride <= ev.reads[x].awaited


(***************************************************************************)
(* get_amv (lines 845-890).  The additions of the loop are int additions:  *)
(* once one of them leaves the range of int the behaviour is undefined and *)
(* ub is set; the value the function then returns is any value the final   *)
(* clamp lets through.                                                     *)
(***************************************************************************)
\* RSHIFT of libavutil
RSHIFT(x, b) ==
    IF x > 0 THEN Shr(x + Shr(Pow2(b), 1), b) ELSE Shr(x + Shr(Pow2(b), 1) - 1, b)

\* a + b is an int
AddFits(a, b) == IF b >= 0 THEN a <= INT_MAX - b ELSE a >= (-INT_MAX - 1) - b

\* lines 850-854
AmvLen(c) ==
    IF "AMV" \in c.workaround_bugs
    THEN Shr(Pow2(c.f_code + 4), c.quarter_sample)
    ELSE Pow2(c.f_code + 4)

AmvClamp_LowerOnly(sum, len) == IF sum < -len THEN -len ELSE sum

\* lines 883-886
AmvClamp(sum, len) ==
    IF sum < -len THEN -len ELSE IF sum >= len THEN len - 1 ELSE sum

\* lines 856-860: one warping point
AmvOnePoint(c, n) ==
    IF c.divx_version = 500 /\ c.divx_build = 413
       /\ c.sprite_warping_accuracy >= c.quarter_sample
    THEN [ub |-> FALSE,
          sum |-> CDiv(c.sprite_offset[0][n],
                       Pow2(c.sprite_warping_accuracy - c.quarter_sample))]
    ELSE IF Abs(c.sprite_offset[0][n]) > INT_MAX \div Pow2(c.quarter_sample)
    THEN [ub |-> TRUE, sum |-> 0]
    ELSE [ub |-> FALSE,
          sum |-> RSHIFT(c.sprite_offset[0][n] * Pow2(c.quarter_sample),
                         c.sprite_warping_accuracy)]

\* lines 874-877: one turn of the inner loop on st = [ub, sum, v]
AmvAdd(st, dx, shift) ==
    IF st.ub \/ ~AddFits(st.sum, Shr(st.v, shift)) \/ ~AddFits(st.v, dx)
    THEN [st EXCEPT !.ub = TRUE]
    ELSE [st EXCEPT !.sum = @ + Shr(st.v, shift), !.v = @ + dx]

\* the inner loop (lines 874-877) from column x on
RECURSIVE AmvRow(_, _, _, _)
AmvRow(st, dx, shift, x) ==
    IF x = 16 \/ st.ub THEN st ELSE AmvRow(AmvAdd(st, dx, shift), dx, shift, x + 1)

\* line 872: v = mb_v + (unsigned)dy * y
AmvRowStart(st, mb_v, dy, y) ==
    [st EXCEPT !.v = WToInt(WAdd(W(mb_v), WMul(W(dy), y)))]

\* the outer loop (lines 869-878) from row y on
RECURSIVE AmvRows(_, _, _, _, _, _)
AmvRows(st, mb_v, dx, dy, shift, y) ==
    IF y = 16 \/ st.ub THEN st
    ELSE AmvRows(AmvRow(AmvRowStart(st, mb_v, dy, y), dx, shift, 0),
                 mb_v, dx, dy, shift, y + 1)

\* line 866: mb_v, in unsigned arithmetic
AmvMbV(c, n, dx, dy) ==
    WToInt(WAdd(W(c.sprite_offset[0][n]),
                WAdd(WMul(W(dx), c.mb_x * 16), WMul(W(dy), c.mb_y * 16))))

\* lines 868-879 with the dx and dy of lines 861-866
AmvLoop(c, n, dx, dy) ==
    AmvRows([ub |-> FALSE, sum |-> 0, v |-> 0], AmvMbV(c, n, dx, dy),
            dx, dy, c.sprite_shift[1], 0)

AmvScaled(c, st) ==
    IF st.ub THEN st
    ELSE [st EXCEPT !.sum = RSHIFT(@, c.sprite_warping_accuracy + 8 - c.quarter_sample)]

\* lines 861-879: the average over the 256 pixels of the macroblock
AmvAverage(c, n) ==
    AmvScaled(c,
        AmvLoop(c, n,
            c.sprite_delta[n][0]
                - (IF n = 0 THEN Pow2(c.sprite_shift[1] + c.sprite_warping_accuracy + 1)
                   ELSE 0),
            c.sprite_delta[n][1]
                - (IF n # 0 THEN Pow2(c.sprite_shift[1] + c.sprite_warping_accuracy + 1)
                   ELSE 0)))

AmvSum(c, n) ==
    IF c.real_sprite_warping_points = 1 THEN AmvOnePoint(c, n) ELSE AmvAverage(c, n)

\* what get_amv can return from the sum st
AmvResults(st, len) ==
    IF st.ub THEN {AmvClamp(v, len) : v \in (-len - 1)..len}
    ELSE {AmvClamp(st.sum, len)}

get_amv(c, n) == AmvResults(AmvSum(c, n), AmvLen(c))


(***************************************************************************)
(* SpecAmv: get_amv on the sprite states mpeg4_decode_sprite_trajectory    *)
(* leaves for warping points near and far, at every macroblock of a frame  *)
(* of MbWidth x MbHeight macroblocks.                                      *)
(***************************************************************************)
AmvPointLists(n) ==
    { SubSeq(<<p1, p2, <<1, -1>>>>, 1, n) :
          p1 \in {<<0, 0>>, <<3, -5>>, <<-40, 16383>>},
          p2 \in {<<0, 0>>, <<16383, -7>>} }

InitAmv ==
    /\ \E n \in 0..3, acc \in {0, 3}, divx \in BOOLEAN, qs \in 0..1, fc \in 1..2,
          bugs \in {{}, {"AMV"}} :
          \E pts \in AmvPointLists(n) :
              ctx = mpeg4_decode_sprite_trajectory(
                        [CtxInit EXCEPT !.num_sprite_warping_points = n,
                                        !.sprite_warping_accuracy = acc,
                                        !.vol_sprite_usage = GMC_SPRITE,
                                        !.pict_type = AV_PICTURE_TYPE_S,
                                        !.divx_version = IF divx THEN 500 ELSE -1,
                                        !.divx_build = IF divx THEN 413 ELSE -1,
                                        !.quarter_sample = qs, !.f_code = fc,
                                        !.workaround_bugs = bugs,
                                        !.width = 16 * MbWidth, !.height = 16 * MbHeight,
                                        !.mb_width = MbWidth, !.mb_height = MbHeight],
                        Reader(SpriteTrajBits(divx, pts))).ctx
    /\ gb = Reader(<<>>)
    /\ ret = 0
    /\ pc = "decode_mb"
    /\ ev = NoEv
    /\ calls = 0

\* get_amv for a component of the macroblock at (x, y)
GetAmv ==
    /\ pc = "decode_mb"
    /\ \E x \in 0..(MbWidth - 1), y \in 0..(MbHeight - 1), n \in 0..1 :
          \E st \in {AmvSum([ctx EXCEPT !.mb_x = x, !.mb_y = y], n)} :
              \E r \in AmvResults(st, AmvLen(ctx)) :
                  /\ ctx' = [ctx EXCEPT !.mb_x = x, !.mb_y = y]
                  /\ ret' = r
                  /\ ev' = [n |-> n, ub |-> st.ub, sum |-> st.sum]
    /\ pc' = "get_amv"
    /\ UNCHANGED <<gb, calls>>

NextAmv == GetAmv

SpecAmv == InitAmv /\ [][NextAmv]_vars

\* C23: the value get_amv returns is at least -len and at most len - 1, len
\* being 1 << (f_code + 4), shifted right by quarter_sample under FF_BUG_AMV.
C23_AmvInRange ==
    pc = "get_amv" =>
        LET len == IF "AMV" \in ctx.workaround_bugs /\ ctx.quarter_sample = 1
                   THEN 2 ^ (ctx.f_code + 3) ELSE 2 ^ (ctx.f_code + 4)
        IN  -len <= ret /\ ret <= len - 1

\* an average above the range is returned as len - 1
C23_Witness ==
    /\ pc = "get_amv"
    /\ ~ev.ub
    /\ ctx.real_sprite_warping_points > 1
    /\ ev.sum > 2 ^ (ctx.f_code + 4)
    /\ "AMV" \in ctx.workaround_bugs /\ ctx.quarter_sample = 1
    /\ ret = 2 ^ (ctx.f_code + 3) - 1

(***************************************************************************)
(* SpecXvid: ff_mpeg4_workaround_bugs called once per frame, with user     *)
(* data parsed between the calls.  idct_perms is the permutation that      *)
(* ff_mpv_idct_init installs for each idct_algo in the build at hand.      *)
(***************************************************************************)
IdctPerms == {PermNone, PermTranspose, PermLibmpeg2}

ff_mpv_idct_init(c) ==
    [c EXCEPT !.idct_permutation = c.idct_perms[c.idct_algo]]

permute_quant_matrix_IgnoreOld(matrix, new_perm, old_perm) ==
    LET tmp == matrix
    IN  [j \in 0..63 |-> tmp[CHOOSE i \in 0..63 : new_perm[i] = j]]

permute_quant_matrix(matrix, new_perm, old_perm) ==
    LET tmp == matrix
    IN  [j \in 0..63 |-> tmp[old_perm[CHOOSE i \in 0..63 : new_perm[i] = j]]]

switch_to_xvid_idct(c) ==
    LET old_permutation == c.idct_permutation
        s == ff_mpv_idct_init([c EXCEPT !.idct_algo = "XVID"])
    IN  [s EXCEPT !.permutated_intra_h_scantable =
                      [scan |-> IF s.alternate_scan = 1
                                THEN "ff_alternate_vertical_scan"
                                ELSE "ff_alternate_horizontal_scan",
                       permutation |-> s.idct_permutation],
                  !.inter_matrix = permute_quant_matrix(@, s.idct_permutation,
                                                        old_permutation),
                  !.intra_matrix = permute_quant_matrix(@, s.idct_permutation,
                                                        old_permutation),
                  !.switches = @ + 1]

\* the comparisons of a build number with an unsigned constant
UnsignedBelow(x, k) == x >= 0 /\ x < k

WorkaroundTags(c) ==
    LET unknown == c.xvid_build = -1 /\ c.divx_version = -1 /\ c.lavc_build = -1
        a == IF unknown /\ c.codec_tag \in {"XVID", "XVIX", "RMP4", "ZMP4", "SIPP"}
             THEN [c EXCEPT !.xvid_build = 0] ELSE c
        b == IF /\ a.xvid_build = -1 /\ a.divx_version = -1 /\ a.lavc_build = -1
                /\ a.codec_tag = "DIVX" /\ a.vo_type = 0
                /\ a.vol_control_parameters = 0
             THEN [a EXCEPT !.divx_version = 400] ELSE a
    IN  IF b.xvid_build >= 0 /\ b.divx_version >= 0
        THEN [b EXCEPT !.divx_version = -1, !.divx_build = -1] ELSE b

WorkaroundAutodetect(c) ==
    LET flags ==
            (IF c.codec_tag = "XVIX" THEN {"XVID_ILACE"} ELSE {})
            \cup (IF c.codec_tag = "UMP4" THEN {"UMP4"} ELSE {})
            \cup (IF c.divx_version >= 500 /\ c.divx_build < 1814
                  THEN {"QPEL_CHROMA"} ELSE {})
            \cup (IF c.divx_version > 502 /\ c.divx_build < 1814
                  THEN {"QPEL_CHROMA2"} ELSE {})
            \cup (IF UnsignedBelow(c.xvid_build, 2) THEN {"QPEL_CHROMA"} ELSE {})
            \cup (IF UnsignedBelow(c.xvid_build, 13) THEN {"EDGE"} ELSE {})
            \cup (IF UnsignedBelow(c.xvid_build, 33) THEN {"DC_CLIP"} ELSE {})
            \cup (IF UnsignedBelow(c.lavc_build, 4653) THEN {"STD_QPEL"} ELSE {})
            \cup (IF UnsignedBelow(c.lavc_build, 4655)
                  THEN {"DIRECT_BLOCKSIZE"} ELSE {})
            \cup (IF UnsignedBelow(c.lavc_build, 4670) THEN {"EDGE"} ELSE {})
            \cup (IF UnsignedBelow(c.lavc_build, 4713) THEN {"DC_CLIP"} ELSE {})
            \cup (IF c.divx_version >= 0
                  THEN {"DIRECT_BLOCKSIZE", "HPEL_CHROMA"} ELSE {})
            \cup (IF UnsignedBelow(c.divx_version, 500) THEN {"EDGE"} ELSE {})
        padded == \/ UnsignedBelow(c.xvid_build, 4)
                  \/ c.divx_version = 501 /\ c.divx_build = 20020416
    IN  IF "AUTODETECT" \in c.workaround_bugs
        THEN [c EXCEPT !.workaround_bugs = @ \cup flags,
                       !.padding_bug_score =
                           IF padded THEN 256 * 256 * 256 * 64 ELSE @]
        ELSE c

ff_mpeg4_workaround_bugs(c) ==
    LET s == WorkaroundAutodetect(WorkaroundTags(c))
    IN  IF s.xvid_build >= 0 /\ s.idct_algo = "AUTO" /\ s.studio_profile = 0
        THEN switch_to_xvid_idct(s)
        ELSE s

\* the producer strings decode_user_data recognises
UserDataStrings ==
    { [kind |-> "XviD", ver |-> 0, build |-> 0],
      [kind |-> "XviD", ver |-> 0, build |-> 50],
      [kind |-> "DivX", ver |-> 501, build |-> 1800],
      [kind |-> "Lavc", ver |-> 0, build |-> 4600] }

decode_user_data(c, str) ==
    CASE str.kind = "DivX" -> [c EXCEPT !.divx_version = str.ver,
                                        !.divx_build = str.build]
      [] str.kind = "Lavc" -> [c EXCEPT !.lavc_build = str.build]
      [] str.kind = "XviD" -> [c EXCEPT !.xvid_build = str.build]
      [] OTHER -> c

MaxBugCalls == 3

InitXvid ==
    /\ \E auto \in IdctPerms, xvid \in IdctPerms,
          tag \in {"XVIX", "DIVX", "mp4v"},
          algo \in {"AUTO", "SIMPLE"}, studio \in 0..1, alt \in 0..1,
          bugs \in {{}, {"AUTODETECT"}} :
          ctx = mpeg4_load_default_matrices(
                    [CtxInit EXCEPT !.idct_permutation = auto,
                                    !.studio_profile = studio,
                                    !.alternate_scan = alt,
                                    !.workaround_bugs = bugs]
                    @@ [codec_tag |-> tag, idct_algo |-> algo,
                        idct_perms |-> [a \in {"AUTO", "SIMPLE", "XVID"} |->
                                           IF a = "XVID" THEN xvid ELSE auto],
                        permutated_intra_h_scantable |->
                            [scan |-> "none", permutation |-> auto],
                        padding_bug_score |-> 0, switches |-> 0])
    /\ gb = Reader(<<>>)
    /\ ret = 0
    /\ pc = "decode_frame"
    /\ ev = NoEv
    /\ calls = 0

\* user data between two frames
DecodeUserData ==
    /\ pc = "workaround_bugs"
    /\ \E str \in UserDataStrings :
          /\ ctx' = decode_user_data(ctx, str)
          /\ ev' = [user_data |-> str.kind]
    /\ pc' = "decode_frame"
    /\ UNCHANGED <<gb, ret, calls>>

\* the call made for a frame
WorkaroundBugs ==
    /\ calls < MaxBugCalls
    /\ ctx' = ff_mpeg4_workaround_bugs(ctx)
    /\ ev' = [switched |-> ctx'.switches > ctx.switches,
              idct_permutation |-> ctx.idct_permutation,
              intra_matrix |-> ctx.intra_matrix,
              inter_matrix |-> ctx.inter_matrix]
    /\ calls' = calls + 1
    /\ pc' = "workaround_bugs"
    /\ UNCHANGED <<gb, ret>>

NextXvid == DecodeUserData \/ WorkaroundBugs

SpecXvid == InitXvid /\ [][NextXvid]_vars

\* C24: over any sequence of ff_mpeg4_workaround_bugs calls the switch to
\* the Xvid IDCT happens at most once, and at the switch the intra and inter
\* matrices keep their natural-order contents: the new matrix at new_perm[i]
\* is the old matrix at old_perm[i], for every i in 0..63.
C24_SwitchOnceKeepsMatrices ==
    /\ ctx.switches <= 1
    /\ pc = "workaround_bugs" /\ ev.switched =>
           \A i \in 0..63 :
               /\ ctx.intra_matrix[ctx.idct_permutation[i]]
                      = ev.intra_matrix[ev.idct_permutation[i]]
               /\ ctx.inter_matrix[ctx.idct_permutation[i]]
                      = ev.inter_matrix[ev.idct_permutation[i]]

\* a third call, with the switch made by an earlier one between two
\* different permutations, neither of them the identity
C24_Witness ==
    /\ pc = "workaround_bugs"
    /\ calls = MaxBugCalls
    /\ ctx.switches = 1
    /\ ~ev.switched
    /\ ctx.idct_algo = "XVID"
    /\ ctx.idct_permutation = PermTranspose
    /\ ctx.idct_perms["AUTO"] = PermLibmpeg2
    /\ ctx.intra_matrix # mpeg4_load_default_matrices(
                              [ctx EXCEPT !.idct_permutation = PermLibmpeg2]).intra_matrix

\* C25: ff_mpeg4_decode_partitions returns only 0 or AVERROR_INVALIDDATA,
\* whatever the bitstream (the macroblock layer reports only categorical
\* results).
C25_CategoricalResults ==
    pc = "decode_partitions" => ret \in {0, AVERROR_INVALIDDATA}

(***************************************************************************)
(* SpecDc: the intra DC of a block read by mpeg4_decode_block and the six  *)
(* DC values of a macroblock read by mpeg4_decode_partition_a, over the    *)
(* stored neighbours, the quantiser and the err_recognition flags.         *)
(***************************************************************************)
\* the intra DC VLC path of mpeg4_decode_block (lines 1389-1406): returned
\* tells whether the function returned at the DC, block0 is block[0]
DecodeBlockIntraDcRead(d) ==
    [returned |-> d.ret < 0, ret |-> IF d.ret < 0 THEN d.ret ELSE 0,
     block0 |-> d.ret, s |-> d.s, dc |-> d.dc]

DecodeBlockIntraDc(st, n) ==
    IF st.partitioned_frame = 1
    THEN LET scale == IF n < 4 THEN y_dc_scale(st.qscale) ELSE c_dc_scale(st.qscale)
             level == DcAt(st, DcCell(st, n, 0, 0))
         IN  [returned |-> FALSE, ret |-> 0,
              block0 |-> (level + (scale \div 2)) \div scale, s |-> st, dc |-> level]
    ELSE DecodeBlockIntraDcRead(mpeg4_decode_dc(st, n))

\* the code of a differential of a luminance or chrominance block
DcCodes(n) ==
    IF n < 4
    THEN {<<0, 1, 1>>, <<1, 1, 1>>, <<1, 1, 0>>,
          <<0, 0, 0, 0, 0, 0, 1>> \o Bits(126, 8),
          <<0, 0, 0, 0, 0, 0, 1>> \o Bits(127, 8),
          <<0, 0, 0, 0, 0, 0, 1>> \o Bits(255, 8), Rep(0, 12)}
    ELSE {<<1, 1>>, <<1, 0, 1>>, <<1, 0, 0>>, Rep(0, 12)}

SixDcStreams ==
    { a \o <<0, 1, 1>> \o b \o <<0, 1, 1>> \o <<1, 1>> \o c :
          a \in DcCodes(0), b \in DcCodes(2) \ {Rep(0, 12)}, c \in DcCodes(5) }

InitDc ==
    /\ \E x \in 0..1, y \in 0..1, q \in {2, 10}, stored \in {0, 8, 1024},
          err \in {{}, {"BITSTREAM"}, {"AGGRESSIVE"}, {"COMPLIANT"}},
          bugs \in {{}, {"DC_CLIP"}}, part \in 0..1 :
          ctx = [PartitionCtx(AV_PICTURE_TYPE_I, x, y, err) EXCEPT
                     !.qscale = q, !.workaround_bugs = bugs,
                     !.resync_mb_x = 0, !.resync_mb_y = 0,
                     !.first_slice_line = IF y = 0 THEN 1 ELSE 0,
                     !.dc_val = [p \in DOMAIN @ |-> stored]]
                @@ [partitioned_frame |-> part]
    /\ gb = Reader(<<>>)
    /\ ret = 0
    /\ pc = "decode_mb"
    /\ ev = NoEv
    /\ calls = 0

\* mpeg4_decode_block up to the DC of block n
DecodeBlockDc ==
    /\ pc = "decode_mb"
    /\ \E n \in 0..5 :
          \E bits \in DcCodes(n) :
              \E r \in {DecodeBlockIntraDc(PartitionState(ctx, Reader(bits)), n)} :
                  /\ ctx' = [f \in DOMAIN ctx |-> r.s[f]]
                  /\ gb' = r.s.gb
                  /\ ret' = r.ret
                  /\ ev' = [n |-> n, dc |-> r.dc, continued |-> ~r.returned,
                            stored |-> DcAt(r.s, DcCell(r.s, n, 0, 0))]
    /\ pc' = "decode_block"
    /\ UNCHANGED calls

\* the DC loop of an intra macroblock in mpeg4_decode_partition_a
PartitionADc ==
    /\ pc = "decode_mb"
    /\ ctx.partitioned_frame = 1
    /\ \E bits \in SixDcStreams :
          \E d \in {DecodeSixDc(PartitionState(ctx, Reader(bits)), 0)} :
              \E r \in {PartitionAIntraDc([d EXCEPT !.s.running = TRUE])} :
                  /\ ctx' = [f \in DOMAIN ctx |-> r[f]]
                  /\ gb' = r.gb
                  /\ ret' = r.ret
                  /\ ev' = [dc |-> d.dc, continued |-> r.running,
                            stored |-> IF \E p \in DOMAIN r.dc_val : r.dc_val[p] = 0
                                       THEN 0 ELSE 1024]
    /\ pc' = "partition_a"
    /\ UNCHANGED calls

NextDc == DecodeBlockDc \/ PartitionADc

SpecDc == InitDc /\ [][NextDc]_vars

\* C27: with neither AV_EF_BITSTREAM nor AV_EF_AGGRESSIVE in err_recognition
\* a block whose reconstructed DC is negative is no error: 0 is stored in
\* dc_val for it, and mpeg4_decode_block and mpeg4_decode_partition_a go on
\* to the next block without returning a negative result.
C27_NegativeDcTolerated ==
    /\ pc \in {"decode_block", "partition_a"}
    /\ ctx.err_recognition \cap {"BITSTREAM", "AGGRESSIVE"} = {}
    /\ ev.dc < 0
    => /\ ev.stored = 0
       /\ ev.continued
       /\ ret >= 0

(***************************************************************************)
(* SpecCplxRepeat: one VOL header with a complexity estimation header,     *)
(* parsed by decode_vol_header several times in succession, as a stream    *)
(* that repeats its VOL header makes it.                                   *)
(***************************************************************************)
MaxVolRepeats == 3

CplxTrash(c) ==
    <<c.cplx_estimation_trash_i, c.cplx_estimation_trash_p, c.cplx_estimation_trash_b>>

CplxVolBits(h, ver) ==
    VolBits([VolParams(ver, 16, 0, 0, 0) EXCEPT
                 !.cplx = 1, !.cplxbits = CplxHeaderBits(h)])

InitCplxRepeat ==
    /\ ctx = CtxInit
    /\ gb = Reader(<<>>)
    /\ ret = 0
    /\ pc = "decode_init"
    /\ ev = NoEv
    /\ calls = 0

\* the first parse of the header
DecodeVolFirst ==
    /\ pc = "decode_init"
    /\ \E h \in CplxHeaders, ver \in 1..2 :
          \E r \in {decode_vol_header(ctx, Reader(CplxVolBits(h, ver)))} :
              /\ ctx' = r.ctx
              /\ gb' = r.gb
              /\ ret' = r.ret
              /\ ev' = [header |-> h, ver |-> ver, once |-> CplxTrash(r.ctx)]
    /\ pc' = "decode_vol_header"
    /\ calls' = 1

\* the same header again
DecodeVolAgain ==
    /\ pc = "decode_vol_header"
    /\ calls < MaxVolRepeats
    /\ \E r \in {decode_vol_header(ctx, Reader(CplxVolBits(ev.header, ev.ver)))} :
          /\ ctx' = r.ctx
          /\ gb' = r.gb
          /\ ret' = r.ret
    /\ calls' = calls + 1
    /\ UNCHANGED <<pc, ev>>

NextCplxRepeat == DecodeVolFirst \/ DecodeVolAgain

SpecCplxRepeat == InitCplxRepeat /\ [][NextCplxRepeat]_vars

\* C26: a well-formed VOL header with complexity estimation and both markers,
\* parsed two or more times in succession, leaves the three skip counters
\* with the values one parse of it leaves.
C26_CountersOfLastVolHeader ==
    /\ pc = "decode_vol_header"
    /\ ret = 0
    /\ ev.header.m1 = 1 /\ ev.header.m2 = 1
    /\ calls >= 2
    => CplxTrash(ctx) = ev.once

(***************************************************************************)
(* SpecTimeBits: two frame-thread contexts after decode_init; each parses  *)
(* VOL headers of every extreme time increment resolution and VOP headers  *)
(* whose time increment has any width or none, and takes the other's       *)
(* fields by mpeg4_update_thread_context.                                  *)
(***************************************************************************)
MaxTimeSteps == 3

TimeVolStreams ==
    { VolBits(VolParams(1, tres, 0, 0, 0)) : tres \in {0, 1, 65535} }

TimeVopStreams ==
    { VopBits(VopParams(AV_PICTURE_TYPE_P, 0, 1, 1)),
      VopBits(VopParams(AV_PICTURE_TYPE_I, 0, 16, 40000)),
      VopBits(VopParams(AV_PICTURE_TYPE_B, 0, 7, 64)),
      Rep(0, 48) }

InitTimeBits ==
    /\ ctx = [t \in Threads |-> CtxInit]
    /\ gb = Reader(<<>>)
    /\ ret = 0
    /\ pc = "decode_init"
    /\ ev = NoEv
    /\ calls = 0

TimeVolHeader ==
    /\ calls < MaxTimeSteps
    /\ \E t \in Threads, b \in TimeVolStreams :
          \E r \in {decode_vol_header(ctx[t], Reader(b))} :
              /\ ctx' = [ctx EXCEPT ![t] = r.ctx]
              /\ gb' = r.gb
              /\ ret' = r.ret
              /\ ev' = [thread |-> t, before |-> ctx[t].time_increment_bits]
    /\ pc' = "decode_vol_header"
    /\ calls' = calls + 1

TimeVopHeader ==
    /\ calls < MaxTimeSteps
    /\ \E t \in Threads, b \in TimeVopStreams :
          \E r \in {decode_vop_header(ctx[t], Reader(b), FALSE)} :
              /\ ctx' = [ctx EXCEPT ![t] = r.ctx]
              /\ gb' = r.gb
              /\ ret' = r.ret
              /\ ev' = [thread |-> t, before |-> ctx[t].time_increment_bits]
    /\ pc' = "decode_vop_header"
    /\ calls' = calls + 1

TimeUpdateThreadContext ==
    /\ calls < MaxTimeSteps
    /\ \E dst \in Threads, src \in Threads, mpv_ret \in {0, AVERROR_INVALIDDATA} :
          /\ dst # src
          /\ \E r \in {mpeg4_update_thread_context(ctx[dst], ctx[src], mpv_ret)} :
                /\ ctx' = [ctx EXCEPT ![dst] = r.ctx]
                /\ ret' = r.ret
          /\ ev' = [thread |-> dst, before |-> ctx[dst].time_increment_bits]
    /\ pc' = "update_thread_context"
    /\ calls' = calls + 1
    /\ UNCHANGED gb

NextTimeBits == TimeVolHeader \/ TimeVopHeader \/ TimeUpdateThreadContext

SpecTimeBits == InitTimeBits /\ [][NextTimeBits]_vars

\* C28: after decode_init, whatever VOL headers, VOP headers (the width scan
\* included) and thread-context updates follow, time_increment_bits of every
\* context is at least 1 and at most 16.
C28_TimeIncrementBitsInRange ==
    \A t \in Threads :
        1 <= ctx[t].time_increment_bits /\ ctx[t].time_increment_bits <= 16

\* a context that took the width 16 from the other one, which the scan of a
\* VOP header without a pattern had left there, and then parsed a VOL
\* header of resolution 1
C28_Witness ==
    /\ pc = "decode_vol_header"
    /\ calls = 3
    /\ ret = 0
    /\ ev.before = 16
    /\ ctx[ev.thread].time_increment_bits = 1
    /\ ctx[3 - ev.thread].time_increment_bits = 16

\* time_base, last_time_base, last_non_b_time and pp_time of a context
VopTimeState(c) == <<c.time_base, c.last_time_base, c.last_non_b_time, c.pp_time>>

RECURSIVE PartitionedBlocks(_, _, _, _)
PartitionedBlocksNext(st, d, i, cbp, i0) ==
    IF d.ret < 0 THEN [st EXCEPT !.ret = AVERROR_INVALIDDATA]
    ELSE PartitionedBlocks([st EXCEPT !.gb = d.gb], i + 1, cbp, i0)

PartitionedBlocks(st, i, cbp, i0) ==
    IF i = 6 \/ st.ret < 0 THEN st
    ELSE IF (cbp \div Pow2(5 - i)) % 2 = 0 THEN PartitionedBlocks(st, i + 1, cbp, i0)
    ELSE PartitionedBlocksNext(st,
             mpeg4_decode_block(st, st.gb, st.mb_intra = 1, i0, st.rvlc = 1,
                                st.err_recognition),
             i, cbp, i0)

\* variant: the slice ends one macroblock late
PartitionedMbEnd_OneLate(st, r) ==
    IF st.mb_num_left < 0
    THEN [st EXCEPT !.gb = r.gb, !.ret = IF r.ret # 0 THEN SLICE_END ELSE SLICE_NOEND]
    ELSE [st EXCEPT !.gb = r.gb, !.ret = SLICE_OK]

\* the end of slice check (lines 1722-1736) after mb_num_left has been
\* decremented; r is the result of mpeg4_is_resync
PartitionedMbEnd(st, r) ==
    IF st.mb_num_left <= 0
    THEN [st EXCEPT !.gb = r.gb, !.ret = IF r.ret # 0 THEN SLICE_END ELSE SLICE_NOEND]
    ELSE [st EXCEPT !.gb = r.gb,
                    !.ret = IF /\ r.ret # 0
                               /\ st.cbp_table[MbXy(st)
                                      + (IF st.mb_x + 1 = st.mb_width THEN 2 ELSE 1)] # 0
                            THEN SLICE_END ELSE SLICE_OK]

PartitionedMbBlocks(st, cbp, i0) ==
    IF IS_SKIP(st.mb_type[MbXy(st)]) THEN st ELSE PartitionedBlocks(st, 0, cbp, i0)

PartitionedMbTail(st) ==
    IF st.ret < 0 THEN st
    ELSE PartitionedMbEnd([st EXCEPT !.mb_num_left = @ - 1],
                          mpeg4_is_resync(st, st.gb))

\* the modes the tables of the first two partitions give (lines 1664-1703)
PartitionedMbModes(st) ==
    LET mb_type == st.mb_type[MbXy(st)]
        gmc == IsGmc(st)
    IN  IF st.pict_type \in {AV_PICTURE_TYPE_P, AV_PICTURE_TYPE_S}
        THEN IF IS_SKIP(mb_type)
             THEN [st EXCEPT !.mb_intra = IF IS_INTRA(mb_type) THEN 1 ELSE 0,
                             !.mcsel = IF gmc THEN 1 ELSE 0,
                             !.mb_skipped = IF gmc THEN 0 ELSE 1]
             ELSE [st EXCEPT !.mb_intra = IF IS_INTRA(mb_type) THEN 1 ELSE 0]
        ELSE [st EXCEPT !.mb_intra = 1]

\* ret is the value returned
mpeg4_decode_partitioned_mb(st) ==
    PartitionedMbTail(
        PartitionedMbBlocks(
            PartitionedMbModes(
                [st EXCEPT !.ret = 0,
                           !.qscale = IF st.qscale_table[MbXy(st)] # @
                                      THEN ff_set_qscale(st.qscale_table[MbXy(st)])
                                      ELSE @]),
            st.cbp_table[MbXy(st)],
            IF st.qscale < st.intra_dc_threshold
               /\ (st.pict_type = AV_PICTURE_TYPE_I
                   \/ IS_INTRA(st.mb_type[MbXy(st)]))
            THEN 0 ELSE -1))

(***************************************************************************)
(* SpecPartitioned: a slice of a partitioned frame: ff_mpeg4_decode_       *)
(* partitions, then the slice loop calling mpeg4_decode_partitioned_mb     *)
(* from the resync position on until a call returns something else than    *)
(* SLICE_OK.                                                               *)
(***************************************************************************)
PartitionedKinds(pict_type) ==
    IF pict_type = AV_PICTURE_TYPE_I THEN {"intra", "intra_q"}
    ELSE {"skip", "inter_q", "intra"}

\* a coded block: the last coefficient, level 1
TextureBlockBits == h263_rl_inter[5].bits \o <<0>>

\* the third partition up to macroblock n: four coded blocks for "intra",
\* zeros for the macroblock bad, a resync marker behind the macroblock mark
RECURSIVE TextureBits(_, _, _, _, _)
TextureBits(head, kinds, n, bad, mark) ==
    IF n > Len(kinds) THEN head \o Rep(1, 24)
    ELSE LET mb == IF kinds[n] # "intra" THEN <<>>
                   ELSE IF n = bad THEN Rep(0, 20)
                   ELSE TextureBlockBits \o TextureBlockBits
                            \o TextureBlockBits \o TextureBlockBits
             h1 == head \o mb
         IN  IF n = mark
             THEN h1 \o MarkerStuffing(Len(h1)) \o Rep(0, 16) \o <<1>>
                     \o Bits(1, av_log2(MbWidth * MbHeight - 1) + 1) \o Bits(5, 5)
                     \o Rep(0, 8)
             ELSE TextureBits(h1, kinds, n + 1, bad, mark)

InitPartitioned ==
    /\ \E pict_type \in {AV_PICTURE_TYPE_I, AV_PICTURE_TYPE_P},
          x \in 0..(MbWidth - 1), y \in 0..(MbHeight - 1), thr \in {0, 99} :
          ctx = PartitionCtx(pict_type, x, y, {})
                @@ [resync_marker |-> 1, partitioned_frame |-> 1, b_code |-> 1,
                    intra_dc_threshold |-> thr, rvlc |-> 0, mpeg_quant |-> 0,
                    mb_intra |-> 0, mb_skipped |-> 0, mcsel |-> 0]
    /\ gb = Reader(<<>>)
    /\ ret = 0
    /\ pc = "decode_slice"
    /\ ev = NoEv
    /\ calls = 0

\* ff_mpeg4_decode_partitions at the start of the slice; the slice loop then
\* starts at the resync position
DecodeSlicePartitions ==
    /\ pc = "decode_slice"
    /\ \E n \in 1..MaxSliceMbs :
          \E kinds \in [1..n -> PartitionedKinds(ctx.pict_type)],
             bad \in 0..n, mark \in 0..n, marker \in {"marker", "none"} :
              \E r \in {ff_mpeg4_decode_partitions(
                            PartitionState(ctx,
                                Reader(TextureBits(
                                    SliceBits(ctx.pict_type, kinds, marker, 0),
                                    kinds, 1, bad, mark))))} :
                  /\ ctx' = [f \in DOMAIN ctx |->
                                 IF f = "mb_x" THEN ctx.resync_mb_x
                                 ELSE IF f = "mb_y" THEN ctx.resync_mb_y
                                 ELSE r.s[f]]
                  /\ gb' = r.s.gb
                  /\ ret' = r.ret
                  /\ ev' = [kinds |-> kinds, bad |-> bad, mark |-> mark,
                            N |-> r.mb_num, rets |-> <<>>]
                  /\ pc' = IF r.ret < 0 THEN "slice_error" ELSE "decode_partitions"
    /\ UNCHANGED calls

\* the slice loop of the caller: macroblocks are decoded strictly in raster
\* order, so after SLICE_OK the position moves on by one macroblock
SliceLoopNext(r) ==
    IF r.ret # SLICE_OK THEN r
    ELSE [r EXCEPT !.mb_x = (r.mb_x + 1) % r.mb_width,
                   !.mb_y = IF r.mb_x + 1 = r.mb_width THEN @ + 1 ELSE @]

\* the next call of the slice loop
DecodePartitionedMb ==
    /\ pc \in {"decode_partitions", "decode_mb"}
    /\ \E r \in {mpeg4_decode_partitioned_mb(PartitionState(ctx, gb))} :
          /\ ctx' = [f \in DOMAIN ctx |-> SliceLoopNext(r)[f]]
          /\ gb' = r.gb
          /\ ret' = r.ret
          /\ ev' = [ev EXCEPT !.rets = Append(@, r.ret)]
          /\ pc' = IF r.ret = SLICE_OK THEN "decode_mb"
                   ELSE IF r.ret < SLICE_NOEND THEN "slice_error" ELSE "slice_end"
    /\ calls' = calls + 1

NextPartitioned == DecodeSlicePartitions \/ DecodePartitionedMb

SpecPartitioned == InitPartitioned /\ [][NextPartitioned]_vars

\* C30: when ff_mpeg4_decode_partitions has succeeded with N macroblocks,
\* mb_num_left is N, and of the calls of mpeg4_decode_partitioned_mb that
\* follow and return no error each of the first N - 1 returns SLICE_OK or
\* SLICE_END and the N-th returns SLICE_END or SLICE_NOEND.
C30_SliceEndsAtLastMb ==
    /\ pc = "decode_partitions" => ctx.mb_num_left = ev.N
    /\ pc \in {"decode_mb", "slice_end", "slice_error"} /\ "rets" \in DOMAIN ev =>
           \A i \in 1..Len(ev.rets) :
               /\ i < ev.N /\ ev.rets[i] >= SLICE_NOEND =>
                      ev.rets[i] \in {SLICE_OK, SLICE_END}
               /\ i = ev.N /\ ev.rets[i] >= SLICE_NOEND =>
                      ev.rets[i] \in {SLICE_END, SLICE_NOEND}
               /\ i <= ev.N

\* three macroblocks: two calls return SLICE_OK and the third, with no
\* resync marker behind it, SLICE_NOEND
C30_Witness ==
    /\ pc = "slice_end"
    /\ ev.N = 3
    /\ ev.rets = <<SLICE_OK, SLICE_OK, SLICE_NOEND>>
    /\ ctx.mb_num_left = 0
    /\ \E i \in 1..3 : ev.kinds[i] = "intra"


=============================================================================
